---- MODULE Spec2Model ----
(***************************************************************************)
(* StudyQuality: the local data-storage layer (Storage, UserStorage,       *)
(* SessionStorage, BackupStorage) and the simulated API on top of it.      *)
(*                                                                         *)
(* localStorage is a partial map from key to decoded JSON value.  Every    *)
(* value the program stores is a JSON value (string, number, null, array,  *)
(* object without undefined members), so a stored item decodes to the      *)
(* value that was encoded; a JS object is a function from its property     *)
(* names to values, and an absent property is a name outside the domain.   *)
(* Time is counted in minutes; the wall clock is taken to be monotone.     *)
(***************************************************************************)
EXTENDS Integers, Sequences, FiniteSets, TLC

VARIABLES
    localStorage,   \* the browser medium: key -> decoded value (absent keys are outside the domain)
    nextId,         \* userStorage.nextId, the singleton's cached id counter
    now,            \* wall clock, minutes
    requestId,      \* api.requestId
    inflight,       \* request id -> request suspended at a delay
    responses,      \* request id -> outcome of a finished request
    held,           \* backup documents returned by createBackup that the caller still holds
    calls,          \* number of direct calls made on the singletons
    authManager,    \* the AuthManager singleton: currentUser, sessionTimer
    notificationManager,  \* the NotificationManager singleton: notifications, nextId, timers
    last            \* the last operation that ran: name, arguments, result, state before it

vars == <<localStorage, nextId, now, requestId, inflight, responses, held, calls,
          authManager, notificationManager, last>>

---------------------------------------------------------------------------
(* Bounds of the model                                                      *)
MaxCalls == 3
MaxRequests == 2
MaxTime == 31
MaxHeld == 1
\* users in an exported collection, characters in a field of an exported user
MaxUsers == 2
MaxText == 1
\* notifications shown, removals waiting at a time
MaxShown == 5
MaxPending == 2

---------------------------------------------------------------------------
(* Program constants                                                        *)
CURRENT_USER == "studyquality_current_user"
USER_DATA == "studyquality_users"
SYSTEM_SETTINGS == "studyquality_settings"
BACKUP_DATA == "studyquality_backup"
SESSION_DATA == "studyquality_session"
METRICS_DATA == "studyquality_metrics"
LOGS_DATA == "studyquality_logs"

STORAGE_KEYS == <<CURRENT_USER, USER_DATA, SYSTEM_SETTINGS, BACKUP_DATA,
                  SESSION_DATA, METRICS_DATA, LOGS_DATA>>

Null == -1                 \* JSON null in a timestamp-valued property
Past == 0                  \* any instant before the page was loaded
LOG_LIMIT == 1000
SESSION_TIMEOUT == 30
MinutesPerDay == 1440

SAMPLE_USERS == <<
    [id |-> 1, name |-> "Juan Perez", email |-> "juan@demo.com", role |-> "admin",
     status |-> "active", registeredDate |-> Past, notes |-> "n1", lastLogin |-> Past],
    [id |-> 2, name |-> "Maria Garcia", email |-> "maria@demo.com", role |-> "user",
     status |-> "active", registeredDate |-> Past, notes |-> "n2", lastLogin |-> Past],
    [id |-> 3, name |-> "Carlos Lopez", email |-> "carlos@demo.com", role |-> "user",
     status |-> "inactive", registeredDate |-> Past, notes |-> "n3", lastLogin |-> Past],
    [id |-> 4, name |-> "Ana Martinez", email |-> "ana@demo.com", role |-> "user",
     status |-> "active", registeredDate |-> Past, notes |-> "n4", lastLogin |-> Past],
    [id |-> 5, name |-> "Roberto Silva", email |-> "roberto@demo.com", role |-> "admin",
     status |-> "active", registeredDate |-> Past, notes |-> "n5", lastLogin |-> Past] >>

DEFAULT_SETTINGS == [theme |-> "auto", language |-> "es", notifications |-> TRUE,
                     autoSave |-> TRUE, debugMode |-> FALSE]

DEMO_EMAIL == "admin@demo.com"
DEMO_PASSWORD == "demo123"
DEMO_USER == [id |-> 0, name |-> "Administrador Demo", email |-> DEMO_EMAIL,
              role |-> "admin", status |-> "active"]

---------------------------------------------------------------------------
(* JavaScript helpers                                                       *)

\* {...a, ...b}: the properties of a, overridden and extended by those of b
Spread(a, b) ==
    [f \in (DOMAIN a) \cup (DOMAIN b) |-> IF f \in DOMAIN b THEN b[f] ELSE a[f]]

\* String.prototype.toLowerCase on the e-mail strings of the model
toLowerCase(s) ==
    CASE s = "Juan@Demo.com" -> "juan@demo.com"
      [] s = "MARIA@demo.com" -> "maria@demo.com"
      [] s = "Nuevo@Demo.com" -> "nuevo@demo.com"
      [] OTHER -> s

\* new Date().toISOString().split('T')[0]: the calendar day of an instant
DateOf(t) == t \div MinutesPerDay

RECURSIVE MaxOf(_)
MaxOf(S) == IF S = {} THEN 0
            ELSE LET x == CHOOSE y \in S : TRUE
                     m == MaxOf(S \ {x})
                 IN IF x > m THEN x ELSE m

\* Array.prototype.findIndex: first index whose element satisfies P, 0 if none
FindIndex(seq, P(_)) ==
    IF \E i \in 1..Len(seq) : P(seq[i])
    THEN CHOOSE i \in 1..Len(seq) : P(seq[i]) /\ \A j \in 1..(i-1) : ~P(seq[j])
    ELSE 0

\* Array.prototype.splice(i, 1)
RemoveAt(seq, i) == SubSeq(seq, 1, i-1) \o SubSeq(seq, i+1, Len(seq))

---------------------------------------------------------------------------
(* Storage                                                                  *)

\* The medium is the function from the names of its decodable items to their
\* decoded values. A medium in bad condition carries, beside its items, the
\* entry MEDIUM: the names whose writes it rejects (setItem throws) and the
\* names whose item is text that JSON.parse rejects.
MEDIUM == "medium"

Rejects(ls) == IF MEDIUM \in DOMAIN ls THEN ls[MEDIUM].rejects ELSE {}

Undecodable(ls) == IF MEDIUM \in DOMAIN ls THEN ls[MEDIUM].undecodable ELSE {}

\* the medium once the items named keys have been overwritten or removed
Replaced(ls, keys) ==
    IF MEDIUM \in DOMAIN ls THEN [ls EXCEPT ![MEDIUM].undecodable = @ \ keys] ELSE ls

\* Storage.get: the decoded item; the default when there is no item or when
\* JSON.parse throws
get(ls, key, defaultValue) ==
    IF key \in Undecodable(ls) THEN defaultValue
    ELSE IF key \in DOMAIN ls THEN ls[key] ELSE defaultValue

\* this.get(key) returns a value
has(ls, key) == key \in DOMAIN ls

\* Storage.set that loses the item when the medium rejects the write
set_LosesItem(ls, key, value) ==
    IF key \in Rejects(ls)
    THEN Replaced([k \in (DOMAIN ls) \ {key} |-> ls[k]], {key})
    ELSE Replaced([k \in (DOMAIN ls) \cup {key} |-> IF k = key THEN value ELSE ls[k]], {key})

\* Storage.set: the medium after the call; a rejected write is caught and
\* leaves the medium as it was
set(ls, key, value) ==
    IF key \in Rejects(ls)
    THEN ls
    ELSE Replaced([k \in (DOMAIN ls) \cup {key} |-> IF k = key THEN value ELSE ls[k]], {key})

\* what Storage.set returns
setReturns(ls, key) == key \notin Rejects(ls)

remove(ls, key) == Replaced([k \in (DOMAIN ls) \ {key} |-> ls[k]], {key})

\* Storage.clear: removes every key of STORAGE_KEYS
clear(ls) ==
    LET keys == {STORAGE_KEYS[i] : i \in 1..Len(STORAGE_KEYS)}
    IN Replaced([k \in (DOMAIN ls) \ keys |-> ls[k]], keys)

\* Storage.initializeStorage: seeds users and settings when the user key is absent
initializeStorage(ls) ==
    IF ~has(ls, USER_DATA)
    THEN set(set(ls, USER_DATA, SAMPLE_USERS), SYSTEM_SETTINGS, DEFAULT_SETTINGS)
    ELSE ls

---------------------------------------------------------------------------
(* UserStorage                                                              *)

getUsers(ls) == get(ls, USER_DATA, <<>>)

getUserIndexById(ls, id) == FindIndex(getUsers(ls), LAMBDA u : u.id = id)

\* first user whose e-mail matches ignoring case, as a sequence of length <= 1
getUserByEmail(ls, email) ==
    LET users == getUsers(ls)
        i == FindIndex(users, LAMBDA u : toLowerCase(u.email) = toLowerCase(email))
    IN IF i = 0 THEN <<>> ELSE <<users[i]>>

getNextUserId(ls) ==
    LET users == getUsers(ls)
    IN IF Len(users) > 0 THEN MaxOf({users[i].id : i \in 1..Len(users)}) + 1 ELSE 1

\* logUserAction whose trim keeps the oldest LOG_LIMIT entries
logUserAction_KeepsOldest(ls, t, action, userId, data) ==
    LET logs == get(ls, LOGS_DATA, <<>>)
        logEntry == [timestamp |-> t, action |-> action, userId |-> userId, data |-> data]
        pushed == Append(logs, logEntry)
        kept == IF Len(pushed) > LOG_LIMIT THEN SubSeq(pushed, 1, LOG_LIMIT) ELSE pushed
    IN set(ls, LOGS_DATA, kept)

\* UserStorage.logUserAction: append an entry, keep the most recent LOG_LIMIT
logUserAction(ls, t, action, userId, data) ==
    LET logs == get(ls, LOGS_DATA, <<>>)
        logEntry == [timestamp |-> t, action |-> action, userId |-> userId, data |-> data]
        pushed == Append(logs, logEntry)
        kept == IF Len(pushed) > LOG_LIMIT
                THEN SubSeq(pushed, Len(pushed) - LOG_LIMIT + 1, Len(pushed))
                ELSE pushed
    IN set(ls, LOGS_DATA, kept)

\* the record createUser builds: the counter first, then the payload, then the stamps
NewUserOf(nid, t, userData) ==
    Spread(Spread([id |-> nid], userData),
           [registeredDate |-> DateOf(t), lastLogin |-> Null, createdAt |-> t, updatedAt |-> t])

\* UserStorage.createUser on an instance whose counter is nid
createUser(ls, nid, t, userData) ==
    LET users == getUsers(ls)
        newUser == NewUserOf(nid, t, userData)
        stored == set(ls, USER_DATA, Append(users, newUser))
    IN [ls |-> logUserAction(stored, t, "USER_CREATED", newUser.id, newUser),
        nextId |-> nid + 1,
        ret |-> newUser]

\* the record updateUser builds: the stored record, then the payload, then updatedAt
UpdatedUserOf(user, t, updates) == Spread(Spread(user, updates), [updatedAt |-> t])

\* updateUser that writes no audit entry
updateUser_NoLog(ls, t, id, updates) ==
    LET users == getUsers(ls)
        userIndex == getUserIndexById(ls, id)
    IN IF userIndex = 0
       THEN [ls |-> ls, found |-> FALSE, ret |-> <<>>]
       ELSE LET updatedUser == UpdatedUserOf(users[userIndex], t, updates)
            IN [ls |-> set(ls, USER_DATA, [users EXCEPT ![userIndex] = updatedUser]),
                found |-> TRUE,
                ret |-> <<updatedUser>>]

\* UserStorage.updateUser; found = FALSE is the null return
updateUser(ls, t, id, updates) ==
    LET users == getUsers(ls)
        userIndex == getUserIndexById(ls, id)
    IN IF userIndex = 0
       THEN [ls |-> ls, found |-> FALSE, ret |-> <<>>]
       ELSE LET updatedUser == UpdatedUserOf(users[userIndex], t, updates)
                stored == set(ls, USER_DATA, [users EXCEPT ![userIndex] = updatedUser])
            IN [ls |-> logUserAction(stored, t, "USER_UPDATED", id, updatedUser),
                found |-> TRUE,
                ret |-> <<updatedUser>>]

\* deleteUser that writes its audit entry before looking for the user
deleteUser_LogsAlways(ls, t, id) ==
    LET logged == logUserAction(ls, t, "USER_DELETED", id, <<>>)
        users == getUsers(ls)
        userIndex == getUserIndexById(ls, id)
    IN IF userIndex = 0
       THEN [ls |-> logged, ret |-> FALSE]
       ELSE [ls |-> set(logged, USER_DATA, RemoveAt(users, userIndex)), ret |-> TRUE]

\* UserStorage.deleteUser
deleteUser(ls, t, id) ==
    LET users == getUsers(ls)
        userIndex == getUserIndexById(ls, id)
    IN IF userIndex = 0
       THEN [ls |-> ls, ret |-> FALSE]
       ELSE LET stored == set(ls, USER_DATA, RemoveAt(users, userIndex))
            IN [ls |-> logUserAction(stored, t, "USER_DELETED", id, users[userIndex]),
                ret |-> TRUE]

\* UserStorage.deleteUsers: deleteUser for each id in turn, counting the successes
RECURSIVE deleteUsers(_, _, _)
deleteUsers(ls, t, ids) ==
    IF ids = <<>>
    THEN [ls |-> ls, ret |-> 0]
    ELSE LET first == deleteUser(ls, t, Head(ids))
             rest == deleteUsers(first.ls, t, Tail(ids))
         IN [ls |-> rest.ls, ret |-> rest.ret + (IF first.ret THEN 1 ELSE 0)]

---------------------------------------------------------------------------
(* SessionStorage                                                           *)

\* SessionStorage.generateSessionId: time-based prefix and a random suffix
generateSessionId(t, r) == <<t, r>>

\* setCurrentUser whose flag record gets a session id of its own
setCurrentUser_OwnFlagId(ls, t, r, user) ==
    LET sessionData == [user |-> user, loginTime |-> t, lastActivity |-> t,
                        sessionId |-> generateSessionId(t, r)]
        ls1 == set(ls, CURRENT_USER, sessionData)
        ls2 == set(ls1, SESSION_DATA, [isLoggedIn |-> TRUE,
                                       sessionStart |-> sessionData.loginTime,
                                       sessionId |-> generateSessionId(t, r + 1)])
        ls3 == initializeStorage(ls2)
    IN updateUser(ls3, t, user.id, [lastLogin |-> t]).ls

\* SessionStorage.setCurrentUser: the session record, the flag record, then
\* lastLogin on the stored user through a newly constructed UserStorage
setCurrentUser(ls, t, r, user) ==
    LET sessionData == [user |-> user, loginTime |-> t, lastActivity |-> t,
                        sessionId |-> generateSessionId(t, r)]
        ls1 == set(ls, CURRENT_USER, sessionData)
        ls2 == set(ls1, SESSION_DATA, [isLoggedIn |-> TRUE,
                                       sessionStart |-> sessionData.loginTime,
                                       sessionId |-> sessionData.sessionId])
        ls3 == initializeStorage(ls2)
    IN updateUser(ls3, t, user.id, [lastLogin |-> t]).ls

\* the embedded user as a sequence of length <= 1 (empty is null)
getCurrentUser(ls) == IF has(ls, CURRENT_USER) THEN <<ls[CURRENT_USER].user>> ELSE <<>>

isLoggedIn(ls) == has(ls, SESSION_DATA) /\ ls[SESSION_DATA].isLoggedIn

updateActivity(ls, t) ==
    IF has(ls, CURRENT_USER)
    THEN set(ls, CURRENT_USER, [ls[CURRENT_USER] EXCEPT !.lastActivity = t])
    ELSE ls

\* logout that removes the session record only
logout_KeepsFlag(ls) == remove(ls, CURRENT_USER)

logout(ls) == remove(remove(ls, CURRENT_USER), SESSION_DATA)

\* isSessionExpired that expires at the timeout itself
isSessionExpired_AtTimeout(ls, t, timeoutMinutes) ==
    IF ~has(ls, CURRENT_USER) THEN TRUE
    ELSE (t - ls[CURRENT_USER].lastActivity) >= timeoutMinutes

isSessionExpired(ls, t, timeoutMinutes) ==
    IF ~has(ls, CURRENT_USER) THEN TRUE
    ELSE (t - ls[CURRENT_USER].lastActivity) > timeoutMinutes

---------------------------------------------------------------------------
(* BackupStorage                                                            *)

KnownKeys == {STORAGE_KEYS[i] : i \in 1..Len(STORAGE_KEYS)}

\* BackupStorage.createBackup: every known key that holds a value, stored under
\* the backup key and returned
createBackup(ls, t) ==
    LET backupData == [version |-> "1.0.0", timestamp |-> t,
                       data |-> [k \in KnownKeys \cap DOMAIN ls |-> ls[k]]]
    IN [ls |-> set(ls, BACKUP_DATA, backupData), ret |-> backupData]

\* restoreBackup writing only the keys that hold no value yet
restoreBackup_KeepExisting(ls, arg) ==
    LET backup == IF arg # <<>> THEN arg
                  ELSE IF has(ls, BACKUP_DATA) THEN <<ls[BACKUP_DATA]>> ELSE <<>>
    IN IF backup = <<>>
       THEN [ls |-> ls, ret |-> FALSE]
       ELSE LET data == backup[1].data
                keys == ((DOMAIN data) \ {BACKUP_DATA}) \ DOMAIN ls
            IN [ls |-> [k \in (DOMAIN ls) \cup keys |-> IF k \in keys THEN data[k] ELSE ls[k]],
                ret |-> TRUE]

\* BackupStorage.restoreBackup; arg is the document passed (empty: use the stored one)
restoreBackup(ls, arg) ==
    LET backup == IF arg # <<>> THEN arg
                  ELSE IF has(ls, BACKUP_DATA) THEN <<ls[BACKUP_DATA]>> ELSE <<>>
    IN IF backup = <<>>
       THEN [ls |-> ls, ret |-> FALSE]
       ELSE LET data == backup[1].data
                keys == ((DOMAIN data) \ {BACKUP_DATA}) \ Rejects(ls)
            IN [ls |-> Replaced([k \in (DOMAIN ls) \cup keys |->
                                    IF k \in keys THEN data[k] ELSE ls[k]], keys),
                ret |-> TRUE]

\* A text is the sequence of its characters.
QUOTE == "\""
COMMA == ","
NEWLINE == "\n"

\* Object.keys(user): the field names of an exported user in insertion order
ObjectKeys(user) == SelectSeq(<<"id", "name">>, LAMBDA h : h \in DOMAIN user)

\* the characters of a field name
NameText(header) == IF header = "id" THEN <<"i", "d">> ELSE <<"n", "a", "m", "e">>

\* String(user[header]): the decimal digits of the id, the text of a text
\* field, "undefined" for a field the user does not have
StringOf(user, header) ==
    IF header \notin DOMAIN user THEN <<"u", "n", "d", "e", "f", "i", "n", "e", "d">>
    ELSE IF header = "id"
         THEN <<CASE user.id = 1 -> "1" [] user.id = 2 -> "2" [] user.id = 3 -> "3" [] OTHER -> "4">>
         ELSE user[header]

\* text.replace(/"/g, '""')
RECURSIVE DoubleQuotes(_)
DoubleQuotes(text) ==
    IF text = <<>> THEN <<>>
    ELSE (IF Head(text) = QUOTE THEN <<QUOTE, QUOTE>> ELSE <<Head(text)>>)
            \o DoubleQuotes(Tail(text))

\* Array.prototype.join
RECURSIVE join(_, _)
join(texts, separator) ==
    IF texts = <<>> THEN <<>>
    ELSE IF Len(texts) = 1 THEN texts[1]
    ELSE texts[1] \o separator \o join(Tail(texts), separator)

\* convertToCSV that writes the values without escaping them
convertToCSV_Unescaped(users) ==
    IF Len(users) = 0 THEN <<>>
    ELSE LET headers == ObjectKeys(users[1])
             csvHeaders == join([h \in 1..Len(headers) |-> NameText(headers[h])], <<COMMA>>)
             csvRows == [i \in 1..Len(users) |->
                           join([h \in 1..Len(headers) |->
                                    <<QUOTE>> \o StringOf(users[i], headers[h]) \o <<QUOTE>>],
                                <<COMMA>>)]
         IN join(<<csvHeaders>> \o csvRows, <<NEWLINE>>)

\* BackupStorage.convertToCSV
convertToCSV(users) ==
    IF Len(users) = 0 THEN <<>>
    ELSE LET headers == ObjectKeys(users[1])
             csvHeaders == join([h \in 1..Len(headers) |-> NameText(headers[h])], <<COMMA>>)
             csvRows == [i \in 1..Len(users) |->
                           join([h \in 1..Len(headers) |->
                                    <<QUOTE>> \o DoubleQuotes(StringOf(users[i], headers[h]))
                                              \o <<QUOTE>>],
                                <<COMMA>>)]
         IN join(<<csvHeaders>> \o csvRows, <<NEWLINE>>)

\* BackupStorage.exportData: takes a backup, then returns its JSON text (kept
\* as the document it is the text of), the CSV of its users, or ''
exportData(ls, t, format) ==
    LET r == createBackup(ls, t)
        backup == r.ret
    IN [ls |-> r.ls,
        ret |-> IF format = "json" THEN [json |-> backup]
                ELSE IF format = "csv"
                     THEN convertToCSV(IF USER_DATA \in DOMAIN backup.data
                                       THEN backup.data[USER_DATA] ELSE <<>>)
                     ELSE <<>>]

\* BackupStorage.importData; data is the text handed in: whether JSON.parse
\* accepts it and the value it parses to (empty: null)
importData(ls, data, format) ==
    IF format = "json"
    THEN IF data.parses THEN restoreBackup(ls, data.value) ELSE [ls |-> ls, ret |-> FALSE]
    ELSE [ls |-> ls, ret |-> FALSE]

---------------------------------------------------------------------------
(* API (api.js)                                                             *)
(* An endpoint is the sequence of its path segments: "/api/users/5" is      *)
(* <<"api", "users", "5">>.                                                 *)

AUTH_LOGIN == <<"api", "auth", "login">>
AUTH_LOGOUT == <<"api", "auth", "logout">>
AUTH_REGISTER == <<"api", "auth", "register">>
USERS_LIST == <<"api", "users">>
USERS_CREATE == <<"api", "users">>
USERS_BULK == <<"api", "users", "bulk">>
REPORTS_GENERATE == <<"api", "reports", "generate">>
REPORTS_EXPORT == <<"api", "reports", "export">>
REPORTS_LIST == <<"api", "reports">>
METRICS_SYSTEM == <<"api", "metrics", "system">>
METRICS_USERS == <<"api", "metrics", "users">>
METRICS_PERFORMANCE == <<"api", "metrics", "performance">>

\* endpoint.includes('/' + segment)
includes(endpoint, segment) == \E i \in 1..Len(endpoint) : endpoint[i] = segment

\* endpoint.includes('/' + segment + '/')
includesDir(endpoint, segment) == \E i \in 1..(Len(endpoint) - 1) : endpoint[i] = segment

\* the segments that match \d+, with their parseInt value
Digits == [s \in {"1", "2", "5", "6"} |->
            CASE s = "1" -> 1 [] s = "2" -> 2 [] s = "5" -> 5 [] s = "6" -> 6]

\* API.extractIdFromEndpoint: the first all-digit segment as an integer, as a
\* sequence of length <= 1 (empty is null)
extractIdFromEndpoint(endpoint) ==
    LET i == FindIndex(endpoint, LAMBDA seg : seg \in DOMAIN Digits)
    IN IF i = 0 THEN <<>> ELSE <<Digits[endpoint[i]]>>

\* the outcome of a handler: the medium and counter it leaves, the status of the
\* envelope (200) or of the APIError thrown, the data of the envelope, and whether
\* the handler is suspended at a further delay
Reply(ls, nid, status, data) ==
    [ls |-> ls, nextId |-> nid, status |-> status, data |-> data, suspended |-> FALSE]

\* login that does not look at the status of the stored user
API_login_AnyStatus(ls, nid, t, r, credentials) ==
    IF credentials.email = DEMO_EMAIL /\ credentials.password = DEMO_PASSWORD
    THEN Reply(setCurrentUser(ls, t, r, DEMO_USER),
               nid, 200, <<DEMO_USER>>)
    ELSE LET user == getUserByEmail(ls, credentials.email)
         IN IF user # <<>>
            THEN Reply(setCurrentUser(ls, t, r, user[1]), nid, 200, user)
            ELSE Reply(ls, nid, 401, <<>>)

\* login without the demo pair: every e-mail is looked up in the collection
API_login_StoredOnly(ls, nid, t, r, credentials) ==
    LET user == getUserByEmail(ls, credentials.email)
    IN IF user # <<>> /\ "status" \in DOMAIN user[1] /\ user[1].status = "active"
       THEN Reply(setCurrentUser(ls, t, r, user[1]), nid, 200, user)
       ELSE Reply(ls, nid, 401, <<>>)

API_login(ls, nid, t, r, credentials) ==
    IF credentials.email = DEMO_EMAIL /\ credentials.password = DEMO_PASSWORD
    THEN Reply(setCurrentUser(ls, t, r, DEMO_USER),
               nid, 200, <<DEMO_USER>>)
    ELSE LET user == getUserByEmail(ls, credentials.email)
         IN IF user # <<>> /\ "status" \in DOMAIN user[1] /\ user[1].status = "active"
            THEN Reply(setCurrentUser(ls, t, r, user[1]), nid, 200, user)
            ELSE Reply(ls, nid, 401, <<>>)

API_logout(ls, nid) == Reply(logout(ls), nid, 200, <<>>)

API_register(ls, nid, t, userData) ==
    IF getUserByEmail(ls, userData.email) # <<>>
    THEN Reply(ls, nid, 409, <<>>)
    ELSE LET c == createUser(ls, nid, t, Spread(userData, [status |-> "active"]))
         IN Reply(c.ls, c.nextId, 200, <<c.ret>>)

API_getUsers(ls, nid) == Reply(ls, nid, 200, getUsers(ls))

\* createUser without the duplicate e-mail check
API_createUser_NoCheck(ls, nid, t, userData) ==
    LET c == createUser(ls, nid, t, userData)
    IN Reply(c.ls, c.nextId, 200, <<c.ret>>)

API_createUser(ls, nid, t, userData) ==
    IF getUserByEmail(ls, userData.email) # <<>>
    THEN Reply(ls, nid, 409, <<>>)
    ELSE LET c == createUser(ls, nid, t, userData)
         IN Reply(c.ls, c.nextId, 200, <<c.ret>>)

\* id is the extracted id (empty: null, which parseInt turns into NaN, equal to no id)
API_updateUser(ls, nid, t, id, updates) ==
    LET u == IF id = <<>> THEN [ls |-> ls, found |-> FALSE, ret |-> <<>>]
             ELSE updateUser(ls, t, id[1], updates)
    IN IF ~u.found THEN Reply(ls, nid, 404, <<>>) ELSE Reply(u.ls, nid, 200, u.ret)

\* deleteUser answering 200 whether or not the user was found
API_deleteUser_Silent(ls, nid, t, id) ==
    LET d == IF id = <<>> THEN [ls |-> ls, ret |-> FALSE] ELSE deleteUser(ls, t, id[1])
    IN Reply(d.ls, nid, 200, <<>>)

API_deleteUser(ls, nid, t, id) ==
    LET d == IF id = <<>> THEN [ls |-> ls, ret |-> FALSE] ELSE deleteUser(ls, t, id[1])
    IN IF ~d.ret THEN Reply(ls, nid, 404, <<>>) ELSE Reply(d.ls, nid, 200, <<>>)

\* the forEach of the bulk operation counting every listed id, found or not
RECURSIVE updateEach_CountsAll(_, _, _, _)
updateEach_CountsAll(ls, t, ids, updates) ==
    IF ids = <<>>
    THEN [ls |-> ls, ret |-> 0]
    ELSE LET first == updateUser(ls, t, Head(ids), updates)
             rest == updateEach_CountsAll(first.ls, t, Tail(ids), updates)
         IN [ls |-> rest.ls, ret |-> rest.ret + 1]

\* userIds.forEach(id => updateUser(id, updates)), counting the non-null results
RECURSIVE updateEach(_, _, _, _)
updateEach(ls, t, ids, updates) ==
    IF ids = <<>>
    THEN [ls |-> ls, ret |-> 0]
    ELSE LET first == updateUser(ls, t, Head(ids), updates)
             rest == updateEach(first.ls, t, Tail(ids), updates)
         IN [ls |-> rest.ls, ret |-> rest.ret + (IF first.found THEN 1 ELSE 0)]

API_bulkUserOperation(ls, nid, t, data) ==
    CASE data.operation = "delete" ->
            LET d == deleteUsers(ls, t, data.userIds) IN Reply(d.ls, nid, 200, <<d.ret>>)
      [] data.operation = "activate" ->
            LET u == updateEach(ls, t, data.userIds, [status |-> "active"])
            IN Reply(u.ls, nid, 200, <<u.ret>>)
      [] data.operation = "deactivate" ->
            LET u == updateEach(ls, t, data.userIds, [status |-> "inactive"])
            IN Reply(u.ls, nid, 200, <<u.ret>>)
      [] OTHER -> Reply(ls, nid, 400, <<>>)

\* API.generateReport up to its own delay: the handler is suspended a second time
API_generateReport(ls, nid) ==
    [ls |-> ls, nextId |-> nid, status |-> 0, data |-> <<>>, suspended |-> TRUE]

API_exportData(ls, nid) == Reply(ls, nid, 200, getUsers(ls))

\* getReports waiting on a delay of its own
API_getReports_Delayed(ls, nid) ==
    [ls |-> ls, nextId |-> nid, status |-> 0, data |-> <<>>, suspended |-> TRUE]

API_getReports(ls, nid) == Reply(ls, nid, 200, <<>>)

API_getMetrics(ls, nid) == Reply(ls, nid, 200, <<>>)

handleAuthRequest(ls, nid, t, r, req) ==
    IF includes(req.endpoint, "login") THEN API_login(ls, nid, t, r, req.data)
    ELSE IF includes(req.endpoint, "logout") THEN API_logout(ls, nid)
    ELSE IF includes(req.endpoint, "register") THEN API_register(ls, nid, t, req.data)
    ELSE Reply(ls, nid, 404, <<>>)

handleUsersRequest(ls, nid, t, req) ==
    IF ~isLoggedIn(ls) THEN Reply(ls, nid, 401, <<>>)
    ELSE IF req.method = "GET" /\ req.endpoint = USERS_LIST THEN API_getUsers(ls, nid)
    ELSE IF req.method = "POST" /\ req.endpoint = USERS_CREATE
         THEN API_createUser(ls, nid, t, req.data)
    ELSE IF req.method = "PUT" /\ includesDir(req.endpoint, "users")
         THEN API_updateUser(ls, nid, t, extractIdFromEndpoint(req.endpoint), req.data)
    ELSE IF req.method = "DELETE" /\ includesDir(req.endpoint, "users")
         THEN API_deleteUser(ls, nid, t, extractIdFromEndpoint(req.endpoint))
    ELSE IF req.method = "POST" /\ req.endpoint = USERS_BULK
         THEN API_bulkUserOperation(ls, nid, t, req.data)
    ELSE Reply(ls, nid, 404, <<>>)

\* handleReportsRequest without the session check
handleReportsRequest_NoAuth(ls, nid, t, req) ==
    IF req.method = "POST" /\ req.endpoint = REPORTS_GENERATE
         THEN API_generateReport(ls, nid)
    ELSE IF req.method = "POST" /\ req.endpoint = REPORTS_EXPORT THEN API_exportData(ls, nid)
    ELSE IF req.method = "GET" /\ req.endpoint = REPORTS_LIST THEN API_getReports(ls, nid)
    ELSE Reply(ls, nid, 404, <<>>)

handleReportsRequest(ls, nid, t, req) ==
    IF ~isLoggedIn(ls) THEN Reply(ls, nid, 401, <<>>)
    ELSE IF req.method = "POST" /\ req.endpoint = REPORTS_GENERATE
         THEN API_generateReport(ls, nid)
    ELSE IF req.method = "POST" /\ req.endpoint = REPORTS_EXPORT THEN API_exportData(ls, nid)
    ELSE IF req.method = "GET" /\ req.endpoint = REPORTS_LIST THEN API_getReports(ls, nid)
    ELSE Reply(ls, nid, 404, <<>>)

\* handleMetricsRequest rejecting a session that has expired
handleMetricsRequest_ChecksExpiry(ls, nid, t, req) ==
    IF ~isLoggedIn(ls) \/ isSessionExpired(ls, t, SESSION_TIMEOUT) THEN Reply(ls, nid, 401, <<>>)
    ELSE IF req.endpoint \in {METRICS_SYSTEM, METRICS_USERS, METRICS_PERFORMANCE}
         THEN API_getMetrics(ls, nid)
    ELSE Reply(ls, nid, 404, <<>>)

handleMetricsRequest(ls, nid, t, req) ==
    IF ~isLoggedIn(ls) THEN Reply(ls, nid, 401, <<>>)
    ELSE IF req.endpoint \in {METRICS_SYSTEM, METRICS_USERS, METRICS_PERFORMANCE}
         THEN API_getMetrics(ls, nid)
    ELSE Reply(ls, nid, 404, <<>>)

\* API.processRequest: routing on the endpoint
processRequest(ls, nid, t, r, req) ==
    IF includesDir(req.endpoint, "auth") THEN handleAuthRequest(ls, nid, t, r, req)
    ELSE IF includes(req.endpoint, "users") THEN handleUsersRequest(ls, nid, t, req)
    ELSE IF includes(req.endpoint, "reports") THEN handleReportsRequest(ls, nid, t, req)
    ELSE IF includes(req.endpoint, "metrics") THEN handleMetricsRequest(ls, nid, t, req)
    ELSE Reply(ls, nid, 404, <<>>)

---------------------------------------------------------------------------
(* Inputs                                                                   *)

\* payloads of createUser on a repository used for nothing else
CreatePayloads ==
    { [name |-> "Nuevo", email |-> "nuevo@demo.com"],
      [name |-> "Nuevo", email |-> "Juan@Demo.com"],
      [name |-> "Nuevo", email |-> "Nuevo@Demo.com", id |-> 1] }

\* payloads and ids of the direct calls
DirectCreatePayloads ==
    { [name |-> "Nuevo", email |-> "nuevo@demo.com"],
      [name |-> "Nuevo", email |-> "Nuevo@Demo.com", id |-> 1] }
DirectUpdatePayloads ==
    { [status |-> "inactive"],
      [id |-> 2, createdAt |-> Past] }
TargetIds == {5, 6}
IdLists == { <<6, 5>> }
RandomSuffixes == {1, 2}
TickSteps == {SESSION_TIMEOUT}

LoginCredentials ==
    { [email |-> DEMO_EMAIL, password |-> DEMO_PASSWORD] }

RegisterPayloads ==
    { [name |-> "Nuevo", email |-> "nuevo@demo.com", password |-> "x"],
      [name |-> "Nuevo", email |-> "Juan@Demo.com", password |-> "x"] }

ApiCreatePayloads ==
    { [name |-> "Nuevo", email |-> "Nuevo@Demo.com"],
      [name |-> "Nuevo", email |-> "Juan@Demo.com"] }

ApiUpdatePayloads ==
    { [email |-> "MARIA@demo.com"] }

BulkPayloads ==
    { [operation |-> op, userIds |-> ids] : op \in {"deactivate"},
                                           ids \in IdLists }

Req(method, endpoint, data) == [method |-> method, endpoint |-> endpoint, data |-> data]

\* credentials of a login: the demo pair, a stored active user in another case and
\* with any password, a stored inactive user with the demo password, and the demo
\* e-mail (stored only once it has been registered) with another password
AuthCredentials ==
    { [email |-> DEMO_EMAIL, password |-> DEMO_PASSWORD],
      [email |-> "Juan@Demo.com", password |-> "x"],
      [email |-> "carlos@demo.com", password |-> DEMO_PASSWORD],
      [email |-> DEMO_EMAIL, password |-> "x"] }

\* bulk operations over a list with an id that is not stored and over a list that
\* names one id twice
BulkIdLists == { <<6, 5>>, <<3, 7, 3>> }
UserBulkPayloads ==
    { [operation |-> op, userIds |-> ids] : op \in {"delete", "activate", "deactivate"},
                                           ids \in BulkIdLists }

\* the requests of a client that administers the users
UserRequests ==
    {Req("POST", AUTH_LOGIN, [email |-> DEMO_EMAIL, password |-> DEMO_PASSWORD])}
    \cup {Req("POST", USERS_CREATE, [name |-> "Nuevo", email |-> "nuevo@demo.com"])}
    \cup {Req("PUT", <<"api", "users", n>>, [status |-> "inactive"]) : n \in {"5", "6"}}
    \cup {Req("DELETE", <<"api", "users", "5">>, <<>>)}
    \cup {Req("POST", USERS_BULK, d) : d \in UserBulkPayloads}

\* the requests of a client that logs in and out
AuthRequests ==
    {Req("POST", AUTH_LOGIN, c) : c \in AuthCredentials}
    \cup {Req("POST", AUTH_LOGOUT, <<>>)}
    \cup {Req("POST", AUTH_REGISTER, [name |-> "Demo", email |-> DEMO_EMAIL, password |-> "x"])}
    \cup {Req("POST", USERS_BULK, d) : d \in BulkPayloads}

\* the requests a client sends
Requests ==
    {Req("POST", AUTH_LOGIN, c) : c \in LoginCredentials}
    \cup {Req("POST", AUTH_LOGOUT, <<>>)}
    \cup {Req("POST", AUTH_REGISTER, d) : d \in RegisterPayloads}
    \cup {Req("GET", USERS_LIST, <<>>)}
    \cup {Req("POST", USERS_CREATE, d) : d \in ApiCreatePayloads}
    \cup {Req("PUT", <<"api", "users", "5">>, d) : d \in ApiUpdatePayloads}
    \cup {Req("DELETE", <<"api", "users", "6">>, <<>>)}
    \cup {Req("POST", USERS_BULK, d) : d \in BulkPayloads}
    \cup {Req("POST", REPORTS_GENERATE, <<>>), Req("GET", REPORTS_LIST, <<>>)}
    \cup {Req("GET", METRICS_SYSTEM, <<>>)}

\* what the medium can hold when the page is loaded: nothing (first visit), an
\* emptied user list, or the data and session a previous visit left behind
InitialMedia ==
    { <<>>,
      [k \in {USER_DATA, SYSTEM_SETTINGS} |->
          IF k = USER_DATA THEN <<>> ELSE DEFAULT_SETTINGS],
      setCurrentUser(<<>>, Past, 1, SAMPLE_USERS[1]) }

---------------------------------------------------------------------------
(* AuthManager (auth module)                                                *)

\* AuthManager.sessionTimeout, in minutes
sessionTimeout == 30

\* the AuthManager its constructor leaves before init(): no user, no timer; a
\* timer is the instant it is due at
NewAuthManager == [currentUser |-> <<>>, sessionTimer |-> <<>>]

\* AuthManager.onLoginSuccess: the user is kept and the session timer restarted
onLoginSuccess(am, t, user) == [currentUser |-> <<user>>, sessionTimer |-> <<t + sessionTimeout>>]

\* AuthManager.onLogoutSuccess: no user, the session timer stopped
onLogoutSuccess(am) == [currentUser |-> <<>>, sessionTimer |-> <<>>]

\* AuthManager.checkExistingSession, run by init(): a live session is taken
\* over, anything else is logged out of
checkExistingSession(ls, am, t) ==
    IF isLoggedIn(ls) /\ ~isSessionExpired(ls, t, SESSION_TIMEOUT)
    THEN [ls |-> ls,
          authManager |-> IF getCurrentUser(ls) # <<>>
                          THEN onLoginSuccess(am, t, getCurrentUser(ls)[1])
                          ELSE am]
    ELSE [ls |-> logout(ls), authManager |-> am]

---------------------------------------------------------------------------
(* NotificationManager (notifications module)                               *)

\* AuthManager.handleLogin and handleRegister after the await: a success
\* envelope makes its user the current user and starts the session timer, a
\* thrown APIError goes to handleAuthError and leaves the manager as it was
handleLogin(am, t, status, data) ==
    IF status = 200 THEN onLoginSuccess(am, t, data[1]) ELSE am

handleRegister(am, t, status, data) ==
    IF status = 200 THEN onLoginSuccess(am, t, data[1]) ELSE am

\* what the handler awaiting the request does with its outcome; AuthManager.logout
\* ends in onLogoutSuccess whether the request succeeded or threw
Awaited(am, t, req, status, data) ==
    IF req.endpoint = AUTH_LOGIN THEN handleLogin(am, t, status, data)
    ELSE IF req.endpoint = AUTH_REGISTER THEN handleRegister(am, t, status, data)
    ELSE IF req.endpoint = AUTH_LOGOUT THEN onLogoutSuccess(am)
    ELSE am

maxVisible == 3

\* the NotificationManager its constructor leaves: no notification, first id 1,
\* no removal waiting for the end of its hide animation
NewNotificationManager == [notifications |-> <<>>, nextId |-> 1, removals |-> <<>>]

\* NotificationManager.createNotification: the next id; timer tells whether the
\* auto-remove timer of the notification is armed
createNotification(nm, persistent) ==
    [id |-> nm.nextId, persistent |-> persistent, timer |-> FALSE]

\* NotificationManager.remove up to its setTimeout: the timer of the
\* notification is cleared and the removal from the list waits for the end of
\* the hide animation; an id that is not listed does nothing
NotificationManager_remove(nm, id) ==
    LET index == FindIndex(nm.notifications, LAMBDA n : n.id = id)
    IN IF index = 0 THEN nm
       ELSE [nm EXCEPT !.notifications[index].timer = FALSE,
                       !.removals = Append(@, id)]

\* the callback of that setTimeout: the notification leaves the list if it is
\* still in it
removalCompletes(nm) ==
    LET id == Head(nm.removals)
        index == FindIndex(nm.notifications, LAMBDA n : n.id = id)
    IN [nm EXCEPT !.notifications = IF index > 0 THEN RemoveAt(@, index) ELSE @,
                  !.removals = Tail(@)]

\* NotificationManager.enforceMaxVisible
enforceMaxVisible(nm) ==
    IF Len(nm.notifications) > maxVisible
    THEN NotificationManager_remove(nm, nm.notifications[1].id)
    ELSE nm

\* NotificationManager.addNotification: push, enforceMaxVisible, then the
\* auto-remove timer of a notification that is not persistent
addNotification(nm, notification) ==
    LET pushed == [nm EXCEPT !.notifications = Append(@, notification)]
        limited == enforceMaxVisible(pushed)
        index == FindIndex(limited.notifications, LAMBDA n : n.id = notification.id)
    IN IF ~notification.persistent
       THEN [limited EXCEPT !.notifications[index].timer = TRUE]
       ELSE limited

\* NotificationManager.show
show(nm, persistent) ==
    addNotification([nm EXCEPT !.nextId = @ + 1], createNotification(nm, persistent))

---------------------------------------------------------------------------
(* Construction of the singletons (storage.js, api.js)                      *)

Init ==
    /\ \E m \in InitialMedia : localStorage = initializeStorage(m)
    /\ nextId = getNextUserId(localStorage)
    /\ now = Past + 1
    /\ requestId = 0
    /\ inflight = <<>>
    /\ responses = <<>>
    /\ held = <<>>
    /\ calls = 0
    /\ authManager = checkExistingSession(localStorage, NewAuthManager, now).authManager
    /\ notificationManager = NewNotificationManager
    /\ last = [op |-> "init"]

\* time passes
Tick ==
    /\ \E d \in TickSteps : now + d <= MaxTime /\ now' = now + d
    /\ UNCHANGED <<localStorage, nextId, requestId, inflight, responses, held, calls,
                   authManager, notificationManager, last>>

---------------------------------------------------------------------------
(* API.request                                                              *)

\* API.request up to its delay: the request is numbered and suspended; overlaps
\* are the requests in flight at that moment
Issue(req) ==
    /\ requestId < MaxRequests
    /\ requestId' = requestId + 1
    /\ inflight' = [i \in (DOMAIN inflight) \cup {requestId + 1} |->
                      IF i = requestId + 1
                      THEN [req |-> req, pc |-> "delay", overlaps |-> DOMAIN inflight]
                      ELSE inflight[i]]
    /\ UNCHANGED <<localStorage, nextId, now, responses, held, calls>>

\* a request whose caller does nothing else before the delay
Request(req) == Issue(req) /\ UNCHANGED <<authManager, notificationManager, last>>

Finished(id, status, data) ==
    /\ inflight' = [i \in (DOMAIN inflight) \ {id} |-> inflight[i]]
    /\ responses' = [i \in (DOMAIN responses) \cup {id} |->
                       IF i = id
                       THEN [req |-> inflight[id].req, status |-> status, data |-> data,
                             overlaps |-> inflight[id].overlaps]
                       ELSE responses[i]]

\* the delay of request id elapses: processRequest runs to the envelope, to the
\* thrown APIError, or to the next delay, with no other task in between
Settle(id, r) ==
    /\ id \in DOMAIN inflight
    /\ inflight[id].pc = "delay"
    /\ LET p == processRequest(localStorage, nextId, now, r, inflight[id].req)
       IN /\ localStorage' = p.ls
          /\ nextId' = p.nextId
          /\ IF p.suspended
             THEN /\ inflight' = [inflight EXCEPT ![id].pc = "report"]
                  /\ UNCHANGED responses
             ELSE Finished(id, p.status, p.data)
          /\ last' = [op |-> "request", id |-> id, req |-> inflight[id].req,
                      status |-> p.status, suspended |-> p.suspended, at |-> now,
                      pre |-> localStorage, preNextId |-> nextId]
    /\ UNCHANGED <<now, requestId, held, calls>>

\* a request made on the API directly: nothing of the page awaits its outcome
Resume(id, r) == Settle(id, r) /\ UNCHANGED <<authManager, notificationManager>>

\* the delay inside generateReport elapses: the report envelope is returned
ResumeReport(id) ==
    /\ id \in DOMAIN inflight
    /\ inflight[id].pc = "report"
    /\ Finished(id, 200, <<>>)
    /\ last' = [op |-> "report", id |-> id, req |-> inflight[id].req, status |-> 200,
                at |-> now, pre |-> localStorage, preNextId |-> nextId]
    /\ UNCHANGED <<localStorage, nextId, now, requestId, held, calls,
                   authManager, notificationManager>>

\* storage.clear() called while requests are in flight
ClearMedium ==
    /\ localStorage' = clear(localStorage)
    /\ last' = [op |-> "clear", pre |-> localStorage, preNextId |-> nextId]
    /\ UNCHANGED <<nextId, now, requestId, inflight, responses, held, calls,
                   authManager, notificationManager>>

\* only a login draws a session id
Draws(id) == IF inflight[id].req.endpoint = AUTH_LOGIN THEN RandomSuffixes ELSE {1}

Next ==
    \/ \E req \in Requests : Request(req)
    \/ \E id \in DOMAIN inflight : \E r \in Draws(id) : Resume(id, r)
    \/ \E id \in DOMAIN inflight : ResumeReport(id)
    \/ Tick

Spec == Init /\ [][Next]_vars

\* the API used for logging in and out, on a medium that may be cleared meanwhile
NextAuth ==
    \/ \E req \in AuthRequests : Request(req)
    \/ \E id \in DOMAIN inflight : \E r \in Draws(id) : Resume(id, r)
    \/ ClearMedium
    \/ Tick

SpecAuth == Init /\ [][NextAuth]_vars

\* the API used for administering the users
NextUsers ==
    \/ \E req \in UserRequests : Request(req)
    \/ \E id \in DOMAIN inflight : \E r \in Draws(id) : Resume(id, r)
    \/ Tick

SpecUsers == Init /\ [][NextUsers]_vars

\* the requests of a client that logs in as the first sample user and then
\* deletes or deactivates that user
SessionRequests ==
    {Req("POST", AUTH_LOGIN, [email |-> "juan@demo.com", password |-> "x"])}
    \cup {Req("DELETE", <<"api", "users", "1">>, <<>>)}
    \cup {Req("PUT", <<"api", "users", "1">>, [status |-> "inactive"])}
    \cup {Req("POST", USERS_BULK, [operation |-> op, userIds |-> <<1>>]) :
            op \in {"delete", "deactivate"}}

NextSession ==
    \/ \E req \in SessionRequests : Request(req)
    \/ \E id \in DOMAIN inflight : \E r \in Draws(id) : Resume(id, r)
    \/ Tick

SpecSession == Init /\ [][NextSession]_vars

---------------------------------------------------------------------------
(* Direct calls on userStorage, sessionStorage, backupStorage               *)

Called ==
    /\ calls < MaxCalls
    /\ calls' = calls + 1
    /\ UNCHANGED <<now, requestId, inflight, responses, authManager, notificationManager>>

CreateUser(userData) ==
    LET r == createUser(localStorage, nextId, now, userData)
    IN /\ Called
       /\ localStorage' = r.ls
       /\ nextId' = r.nextId
       /\ last' = [op |-> "createUser", userData |-> userData, ret |-> r.ret,
                   pre |-> localStorage, preNextId |-> nextId]
       /\ UNCHANGED held

UpdateUser(id, updates) ==
    LET r == updateUser(localStorage, now, id, updates)
    IN /\ Called
       /\ localStorage' = r.ls
       /\ last' = [op |-> "updateUser", id |-> id, updates |-> updates, found |-> r.found,
                   ret |-> r.ret, pre |-> localStorage, preNextId |-> nextId]
       /\ UNCHANGED <<nextId, held>>

DeleteUser(id) ==
    LET r == deleteUser(localStorage, now, id)
    IN /\ Called
       /\ localStorage' = r.ls
       /\ last' = [op |-> "deleteUser", id |-> id, ret |-> r.ret,
                   pre |-> localStorage, preNextId |-> nextId]
       /\ UNCHANGED <<nextId, held>>

DeleteUsers(ids) ==
    LET r == deleteUsers(localStorage, now, ids)
    IN /\ Called
       /\ localStorage' = r.ls
       /\ last' = [op |-> "deleteUsers", ids |-> ids, ret |-> r.ret,
                   pre |-> localStorage, preNextId |-> nextId]
       /\ UNCHANGED <<nextId, held>>

Clear ==
    /\ Called
    /\ localStorage' = clear(localStorage)
    /\ last' = [op |-> "clear", pre |-> localStorage, preNextId |-> nextId]
    /\ UNCHANGED <<nextId, held>>

\* the caller keeps the returned document; state is the medium it was taken from
CreateBackup ==
    LET r == createBackup(localStorage, now)
    IN /\ Called
       /\ localStorage' = r.ls
       /\ held' = IF Len(held) < MaxHeld
                  THEN Append(held, [doc |-> r.ret, state |-> localStorage])
                  ELSE held
       /\ last' = [op |-> "createBackup", ret |-> r.ret,
                   pre |-> localStorage, preNextId |-> nextId]
       /\ UNCHANGED nextId

\* restoreBackup() with the stored document, or restoreBackup(doc) with a held one
RestoreBackup(arg) ==
    LET r == restoreBackup(localStorage, arg)
    IN /\ Called
       /\ localStorage' = r.ls
       /\ last' = [op |-> "restoreBackup", arg |-> arg, ret |-> r.ret,
                   pre |-> localStorage, preNextId |-> nextId]
       /\ UNCHANGED <<nextId, held>>

SetCurrentUser(user, r) ==
    /\ Called
    /\ localStorage' = setCurrentUser(localStorage, now, r, user)
    /\ last' = [op |-> "setCurrentUser", user |-> user, at |-> now,
                pre |-> localStorage, preNextId |-> nextId]
    /\ UNCHANGED <<nextId, held>>

Logout ==
    /\ Called
    /\ localStorage' = logout(localStorage)
    /\ last' = [op |-> "logout", pre |-> localStorage, preNextId |-> nextId]
    /\ UNCHANGED <<nextId, held>>

UpdateActivity ==
    /\ Called
    /\ localStorage' = updateActivity(localStorage, now)
    /\ last' = [op |-> "updateActivity", at |-> now,
                pre |-> localStorage, preNextId |-> nextId]
    /\ UNCHANGED <<nextId, held>>

ImportData(data, format) ==
    LET r == importData(localStorage, data, format)
    IN /\ Called
       /\ localStorage' = r.ls
       /\ last' = [op |-> "importData", data |-> data, format |-> format, ret |-> r.ret,
                   pre |-> localStorage, preNextId |-> nextId]
       /\ UNCHANGED <<nextId, held>>

\* the users a caller can pass to setCurrentUser: the demo user or a stored one
LoginUsers ==
    {DEMO_USER} \cup {getUsers(localStorage)[i] : i \in 1..(IF Len(getUsers(localStorage)) > 0 THEN 1 ELSE 0)}

NextRepo ==
    \/ \E userData \in DirectCreatePayloads : CreateUser(userData)
    \/ \E id \in TargetIds, updates \in DirectUpdatePayloads : UpdateUser(id, updates)
    \/ \E id \in TargetIds : DeleteUser(id)
    \/ \E ids \in IdLists : DeleteUsers(ids)
    \/ Clear
    \/ CreateBackup
    \/ RestoreBackup(<<>>)
    \/ \E i \in 1..Len(held) : RestoreBackup(<<held[i].doc>>)
    \/ \E user \in LoginUsers, r \in RandomSuffixes : SetCurrentUser(user, r)
    \/ Logout
    \/ UpdateActivity
    \/ Tick

SpecRepo == Init /\ [][NextRepo]_vars

\* the audit log left by LOG_LIMIT - 1 earlier updates of user 5, which switched
\* its status back and forth
FilledLog ==
    [i \in 1..(LOG_LIMIT - 1) |->
        [timestamp |-> Past, action |-> "USER_UPDATED", userId |-> 5,
         data |-> [status |-> IF i % 2 = 1 THEN "inactive" ELSE "active"]]]

\* a page loaded on the medium of a long-used installation
InitLog ==
    /\ localStorage = set(initializeStorage(<<>>), LOGS_DATA, FilledLog)
    /\ nextId = getNextUserId(localStorage)
    /\ now = Past + 1
    /\ requestId = 0
    /\ inflight = <<>>
    /\ responses = <<>>
    /\ held = <<>>
    /\ calls = 0
    /\ authManager = checkExistingSession(localStorage, NewAuthManager, now).authManager
    /\ notificationManager = NewNotificationManager
    /\ last = [op |-> "init"]

\* the texts a caller hands to importData: one that is not JSON, the text "null",
\* and the text of a held backup document
ImportTexts ==
    {[parses |-> FALSE, value |-> <<>>], [parses |-> TRUE, value |-> <<>>]}
        \cup {[parses |-> TRUE, value |-> <<held[i].doc>>] : i \in 1..Len(held)}

ImportFormats == {"json", "csv"}

\* the operations of the core on that medium
NextLog ==
    \/ \E userData \in ApiCreatePayloads : CreateUser(userData)
    \/ \E id \in TargetIds : UpdateUser(id, [status |-> "inactive"])
    \/ DeleteUser(5)
    \/ \E ids \in IdLists : DeleteUsers(ids)
    \/ Clear
    \/ CreateBackup
    \/ RestoreBackup(<<>>)
    \/ \E data \in ImportTexts, format \in ImportFormats : ImportData(data, format)
    \/ \E user \in LoginUsers : SetCurrentUser(user, 1)
    \/ Logout

SpecLog == InitLog /\ [][NextLog]_vars

\* direct calls of Storage.set and Storage.get
Set(key, value) ==
    /\ Called
    /\ localStorage' = set(localStorage, key, value)
    /\ last' = [op |-> "set", key |-> key, value |-> value,
                ret |-> setReturns(localStorage, key),
                pre |-> localStorage, preNextId |-> nextId]
    /\ UNCHANGED <<nextId, held>>

Get(key, defaultValue) ==
    /\ Called
    /\ last' = [op |-> "get", key |-> key, defaultValue |-> defaultValue,
                ret |-> get(localStorage, key, defaultValue),
                pre |-> localStorage, preNextId |-> nextId]
    /\ UNCHANGED <<localStorage, nextId, held>>

\* the names a medium short of space rejects writes to
RejectSets == { {}, {USER_DATA}, {LOGS_DATA}, {SESSION_DATA}, {BACKUP_DATA}, KnownKeys }

\* the names whose item has been damaged
UndecodableSets == { {}, {USER_DATA}, {CURRENT_USER, LOGS_DATA} }

\* the media of InitialMedia in every such condition
FailingMedia ==
    { [k \in ((DOMAIN m) \ undecodable) \cup {MEDIUM} |->
          IF k = MEDIUM THEN [rejects |-> rejects, undecodable |-> undecodable] ELSE m[k]] :
      m \in {<<>>, setCurrentUser(<<>>, Past, 1, SAMPLE_USERS[1])},
      rejects \in RejectSets, undecodable \in UndecodableSets }

InitMedium ==
    /\ \E m \in FailingMedia : localStorage = initializeStorage(m)
    /\ nextId = getNextUserId(localStorage)
    /\ now = Past + 1
    /\ requestId = 0
    /\ inflight = <<>>
    /\ responses = <<>>
    /\ held = <<>>
    /\ calls = 0
    /\ authManager = checkExistingSession(localStorage, NewAuthManager, now).authManager
    /\ notificationManager = NewNotificationManager
    /\ last = [op |-> "init"]

\* the default the callers of get pass for each key
DefaultOf(key) == IF key \in {USER_DATA, LOGS_DATA} THEN <<>> ELSE Null

NextMedium ==
    \/ \E key \in {USER_DATA, SYSTEM_SETTINGS} :
          Set(key, IF key = USER_DATA THEN <<>> ELSE DEFAULT_SETTINGS)
    \/ \E key \in {USER_DATA, LOGS_DATA, CURRENT_USER} : Get(key, DefaultOf(key))
    \/ \E userData \in ApiCreatePayloads : CreateUser(userData)
    \/ UpdateUser(5, [status |-> "inactive"])
    \/ DeleteUser(5)
    \/ \E user \in LoginUsers : SetCurrentUser(user, 1)
    \/ UpdateActivity
    \/ Logout
    \/ Clear
    \/ CreateBackup
    \/ RestoreBackup(<<>>)

SpecMedium == InitMedium /\ [][NextMedium]_vars

ExportData(format) ==
    LET r == exportData(localStorage, now, format)
    IN /\ Called
       /\ localStorage' = r.ls
       /\ last' = [op |-> "exportData", format |-> format, ret |-> r.ret,
                   pre |-> localStorage, preNextId |-> nextId]
       /\ UNCHANGED <<nextId, held>>

\* the characters a field of a user can hold
Chars == {"a", QUOTE, COMMA, NEWLINE}

RECURSIVE TextsUpTo(_)
TextsUpTo(n) ==
    IF n = 0 THEN {<<>>}
    ELSE LET shorter == TextsUpTo(n - 1)
         IN shorter \cup {Append(text, c) : text \in shorter, c \in Chars}

\* the users at position i of an exported collection: with a name, or without one
ExportedUsers(i) == {[id |-> i]} \cup {[id |-> i, name |-> text] : text \in TextsUpTo(MaxText)}

RECURSIVE CollectionsOf(_)
CollectionsOf(n) ==
    IF n = 0 THEN {<<>>}
    ELSE {Append(users, user) : users \in CollectionsOf(n - 1), user \in ExportedUsers(n)}

ExportedCollections == UNION {CollectionsOf(n) : n \in 0..MaxUsers}

\* the medium holds such a collection, or nothing after clear()
InitExport ==
    /\ \/ \E users \in ExportedCollections :
             localStorage = [k \in {USER_DATA, SYSTEM_SETTINGS} |->
                                IF k = USER_DATA THEN users ELSE DEFAULT_SETTINGS]
       \/ localStorage = clear(initializeStorage(<<>>))
    /\ nextId = MaxUsers + 1
    /\ now = Past + 1
    /\ requestId = 0
    /\ inflight = <<>>
    /\ responses = <<>>
    /\ held = <<>>
    /\ calls = 0
    /\ authManager = checkExistingSession(localStorage, NewAuthManager, now).authManager
    /\ notificationManager = NewNotificationManager
    /\ last = [op |-> "init"]

NextExport == \E format \in {"csv", "json", "xml"} : ExportData(format)

SpecExport == InitExport /\ [][NextExport]_vars

---------------------------------------------------------------------------
(* Calls on the notification manager                                        *)

OnlyNotifications ==
    UNCHANGED <<localStorage, nextId, now, requestId, inflight, responses, held, calls,
                authManager>>

\* showNotification(message, type, options)
Show(persistent) ==
    /\ notificationManager.nextId <= MaxShown
    /\ notificationManager' = show(notificationManager, persistent)
    /\ last' = [op |-> "show", id |-> notificationManager.nextId, pre |-> notificationManager]
    /\ OnlyNotifications

\* the close button or an action button of a listed notification: remove(id)
Remove(id) ==
    /\ Len(notificationManager.removals) < MaxPending
    /\ notificationManager' = NotificationManager_remove(notificationManager, id)
    /\ last' = [op |-> "remove", id |-> id, pre |-> notificationManager]
    /\ OnlyNotifications

\* the auto-remove timer of a notification fires: remove(id)
AutoRemove(id) ==
    /\ \E i \in 1..Len(notificationManager.notifications) :
          notificationManager.notifications[i].id = id /\ notificationManager.notifications[i].timer
    /\ notificationManager' = NotificationManager_remove(notificationManager, id)
    /\ last' = [op |-> "autoRemove", id |-> id, pre |-> notificationManager]
    /\ OnlyNotifications

\* the hide animation of the oldest waiting removal ends
RemovalCompletes ==
    /\ notificationManager.removals # <<>>
    /\ notificationManager' = removalCompletes(notificationManager)
    /\ last' = [op |-> "removed", id |-> Head(notificationManager.removals),
                pre |-> notificationManager]
    /\ OnlyNotifications

ListedIds == {notificationManager.notifications[i].id :
                i \in 1..Len(notificationManager.notifications)}

NextNotifications ==
    \/ \E persistent \in BOOLEAN : Show(persistent)
    \/ \E id \in ListedIds : Remove(id)
    \/ \E id \in ListedIds : AutoRemove(id)
    \/ RemovalCompletes

SpecNotifications == Init /\ [][NextNotifications]_vars

---------------------------------------------------------------------------
(* The page: AuthManager over AuthAPI, the session timer and the monitoring *)

\* time passes in halves of the timeout
PageSteps == {SESSION_TIMEOUT \div 2}

\* the forms of the page: a login of the demo user and of a stored user, a
\* registration with a new e-mail and with a taken one
PageCredentials ==
    { [email |-> DEMO_EMAIL, password |-> DEMO_PASSWORD],
      [email |-> "Juan@Demo.com", password |-> "x"],
      [email |-> DEMO_EMAIL, password |-> "x"] }

\* the login form is submitted: handleLogin up to its await
HandleLogin(credentials) == Request(Req("POST", AUTH_LOGIN, credentials))

\* the register form is submitted: handleRegister up to its await
HandleRegister(userData) == Request(Req("POST", AUTH_REGISTER, userData))

\* the logout button: AuthManager.logout up to its await
HandleLogout == Request(Req("POST", AUTH_LOGOUT, <<>>))

\* the delay of a request of the page elapses: processRequest runs, then the
\* handler that awaited it goes on: the AuthManager takes the outcome and one
\* notification is shown (none for a request nothing of the AuthManager awaits)
ResumePage(id, r) ==
    /\ Settle(id, r)
    /\ LET req == inflight[id].req
           p == processRequest(localStorage, nextId, now, r, req)
       IN /\ authManager' = Awaited(authManager, now, req, p.status, p.data)
          /\ notificationManager' =
                IF req.endpoint \in {AUTH_LOGIN, AUTH_REGISTER, AUTH_LOGOUT}
                THEN show(notificationManager, FALSE)
                ELSE notificationManager

\* AuthManager.handleSessionExpired: a warning is shown and logout() is called
handleSessionExpired(by) ==
    /\ Issue(Req("POST", AUTH_LOGOUT, <<>>))
    /\ notificationManager' = show(notificationManager, FALSE)
    /\ last' = [op |-> "handleSessionExpired", by |-> by, at |-> now,
                pre |-> localStorage, preNextId |-> nextId]

\* the timeout set by startSessionTimer elapses
SessionTimerFires ==
    /\ authManager.sessionTimer # <<>>
    /\ now >= authManager.sessionTimer[1]
    /\ authManager' = [authManager EXCEPT !.sessionTimer = <<>>]
    /\ handleSessionExpired("timer")

\* the interval of startSessionMonitoring finds the session expired
MonitorInterval ==
    /\ authManager.currentUser # <<>>
    /\ isSessionExpired(localStorage, now, SESSION_TIMEOUT)
    /\ UNCHANGED authManager
    /\ handleSessionExpired("interval")

\* a click, key press, mouse move or scroll: the listener of
\* startSessionMonitoring
Activity ==
    /\ authManager.currentUser # <<>>
    /\ localStorage' = updateActivity(localStorage, now)
    /\ last' = [op |-> "activity", at |-> now, pre |-> localStorage, preNextId |-> nextId]
    /\ UNCHANGED <<nextId, now, requestId, inflight, responses, held, calls,
                   authManager, notificationManager>>

\* time passes, not beyond the moment the session timer is due
PageTick ==
    /\ \E d \in PageSteps : now + d <= MaxTime /\ now' = now + d
    /\ authManager.sessionTimer # <<>> => now < authManager.sessionTimer[1]
    /\ UNCHANGED <<localStorage, nextId, requestId, inflight, responses, held, calls,
                   authManager, notificationManager, last>>

NextPage ==
    \/ \E credentials \in PageCredentials : HandleLogin(credentials)
    \/ \E userData \in RegisterPayloads : HandleRegister(userData)
    \/ HandleLogout
    \/ \E id \in DOMAIN inflight : \E r \in Draws(id) : ResumePage(id, r)
    \/ SessionTimerFires
    \/ MonitorInterval
    \/ Activity
    \/ PageTick

SpecPage == Init /\ [][NextPage]_vars

\* a repository on which only createUser is called
NextCreate ==
    \/ \E userData \in CreatePayloads : CreateUser(userData)
    \/ Tick

SpecCreate == Init /\ [][NextCreate]_vars

---------------------------------------------------------------------------
(* Properties of the repository                                             *)

\* the ids of the USER_CREATED entries of the audit log, in append order
CreatedIds ==
    LET logs == get(localStorage, LOGS_DATA, <<>>)
    IN SelectSeq(logs, LAMBDA e : e.action = "USER_CREATED")

StrictlyIncreasing(entries) ==
    \A i, j \in 1..Len(entries) : i < j => entries[i].userId < entries[j].userId

\* C3: in every reachable state of the shared repository (after createUser,
\* deleteUser, deleteUsers, clear, restoreBackup in any order) a createUser whose
\* payload names no id assigns max(stored ids) + 1, or 1 on an empty collection
C3_CreateAssignsMaxPlusOne ==
    (last.op = "createUser" /\ "id" \notin DOMAIN last.userData)
        => last.ret.id = getNextUserId(last.pre)

\* C4: over a sequence of createUser calls the created ids are strictly increasing
\* and each is one more than the maximum id stored just before the call (1 on an
\* empty collection)
C4_CreatedIdsIncreaseByOne ==
    /\ StrictlyIncreasing(CreatedIds)
    /\ last.op = "createUser" => last.ret.id = getNextUserId(last.pre)

\* the record updateUser found, before and after the call
UpdatedIndex == getUserIndexById(last.pre, last.id)
UserBefore == getUsers(last.pre)[UpdatedIndex]
UserAfter == getUsers(localStorage)[UpdatedIndex]

SameProperty(a, b, f) ==
    /\ (f \in DOMAIN a) <=> (f \in DOMAIN b)
    /\ (f \in DOMAIN a) => a[f] = b[f]

\* C5: updateUser on a stored id, whatever the payload carries, keeps the record's
\* id and createdAt, sets updatedAt no earlier than before, and changes no other record
C5_UpdateKeepsIdAndCreatedAt ==
    (last.op = "updateUser" /\ last.found) =>
        /\ Len(getUsers(localStorage)) = Len(getUsers(last.pre))
        /\ SameProperty(UserBefore, UserAfter, "id")
        /\ SameProperty(UserBefore, UserAfter, "createdAt")
        /\ "updatedAt" \in DOMAIN UserAfter
        /\ ("updatedAt" \in DOMAIN UserBefore) => UserAfter.updatedAt >= UserBefore.updatedAt
        /\ \A i \in 1..Len(getUsers(last.pre)) :
              i # UpdatedIndex => getUsers(localStorage)[i] = getUsers(last.pre)[i]

\* the restore that just ran used a document the caller got from createBackup
RestoredHeld(i) ==
    /\ last.op = "restoreBackup"
    /\ last.arg # <<>>
    /\ i \in 1..Len(held)
    /\ last.arg[1] = held[i].doc

NonReservedKeys == KnownKeys \ {BACKUP_DATA}

SameValue(a, b, k) ==
    /\ (k \in DOMAIN a) <=> (k \in DOMAIN b)
    /\ (k \in DOMAIN a) => a[k] = b[k]

\* C7 as stated: restoreBackup of a document taken in state S returns true and
\* leaves every non-reserved known key as it was in S, the keys without a value
\* in S included
C7_RestoreReturnsToBackupState ==
    \A i \in 1..Len(held) :
        RestoredHeld(i) =>
            /\ last.ret = TRUE
            /\ \A k \in NonReservedKeys : SameValue(localStorage, held[i].state, k)

\* C7 as amended: restoreBackup of a document taken in state S returns true,
\* leaves every non-reserved known key that held a value in S with that value, and
\* leaves a key that held no value in S as it was just before the restore
C7_RestoreOverwritesBackedUpKeys ==
    \A i \in 1..Len(held) :
        RestoredHeld(i) =>
            /\ last.ret = TRUE
            /\ \A k \in NonReservedKeys :
                  IF k \in DOMAIN held[i].state
                  THEN k \in DOMAIN localStorage /\ localStorage[k] = held[i].state[k]
                  ELSE SameValue(localStorage, last.pre, k)

\* a restore of a held document after later mutations: some backed-up key had
\* changed and some key absent at backup time had been written
C7_Witness ==
    \E i \in 1..Len(held) :
        /\ RestoredHeld(i)
        /\ \E k \in NonReservedKeys \cap DOMAIN held[i].state :
              k \in DOMAIN last.pre /\ last.pre[k] # held[i].state[k]
        /\ \E k \in NonReservedKeys : k \notin DOMAIN held[i].state /\ k \in DOMAIN last.pre

---------------------------------------------------------------------------
(* Properties of the API                                                    *)

\* a request routed to the users, reports or metrics handlers
Protected(req) ==
    /\ ~includesDir(req.endpoint, "auth")
    /\ \/ includes(req.endpoint, "users")
       \/ includes(req.endpoint, "reports")
       \/ includes(req.endpoint, "metrics")

\* a request that asks for a user to be created
CreateReq(req) ==
    \/ req.endpoint = AUTH_REGISTER
    \/ req.method = "POST" /\ req.endpoint = USERS_CREATE

EmailStored(ls, email) == getUserByEmail(ls, email) # <<>>

\* C1: a users, reports or metrics request that resumes while isLoggedIn() is
\* false (no session flag record) fails with 401 and leaves the user collection, the audit log and
\* the session keys as they were
C1_UnauthenticatedRejected ==
    (last.op = "request" /\ Protected(last.req) /\ ~isLoggedIn(last.pre)) =>
        /\ last.status = 401
        /\ ~last.suspended
        /\ \A k \in {USER_DATA, LOGS_DATA, CURRENT_USER, SESSION_DATA} :
              SameValue(localStorage, last.pre, k)
        /\ nextId = last.preNextId

\* a POST /users sent before a logout and resumed after it was rejected
C1_Witness ==
    /\ last.op = "request"
    /\ last.req.method = "POST" /\ last.req.endpoint = USERS_CREATE
    /\ ~isLoggedIn(last.pre)
    /\ last.status = 401
    /\ \E j \in DOMAIN responses : j > last.id /\ responses[j].req.endpoint = AUTH_LOGOUT

EmailsPairwiseDistinct(users) ==
    \A i, j \in 1..Len(users) :
        i # j => toLowerCase(users[i].email) # toLowerCase(users[j].email)

\* C2: the stored e-mails stay pairwise distinct ignoring case under every
\* sequence of requests, and a create or register whose e-mail is already stored
\* fails with 409 and adds no user
C2_EmailsStayDistinct ==
    /\ EmailsPairwiseDistinct(getUsers(localStorage))
    /\ (/\ last.op = "request" /\ CreateReq(last.req)
        /\ (last.req.endpoint = USERS_CREATE => isLoggedIn(last.pre))
        /\ EmailStored(last.pre, last.req.data.email)) =>
            /\ last.status = 409
            /\ getUsers(localStorage) = getUsers(last.pre)

\* C6: a register with a new e-mail adds the user and creates its session (both
\* records exist, isLoggedIn() is true); a register with a stored e-mail fails
\* with 409 and creates neither
C6_RegisterCreatesUserAndSession ==
    (last.op = "request" /\ last.req.endpoint = AUTH_REGISTER) =>
        IF EmailStored(last.pre, last.req.data.email)
        THEN /\ last.status = 409
             /\ localStorage = last.pre
        ELSE /\ last.status = 200
             /\ Len(getUsers(localStorage)) = Len(getUsers(last.pre)) + 1
             /\ has(localStorage, CURRENT_USER)
             /\ isLoggedIn(localStorage)
             /\ localStorage[CURRENT_USER].user.id = getUsers(localStorage)[Len(getUsers(localStorage))].id
             /\ localStorage[CURRENT_USER].sessionId = localStorage[SESSION_DATA].sessionId

\* requests i and j were suspended at their delays at the same time
Overlapped(i, j) == i \in responses[j].overlaps \/ j \in responses[i].overlaps

SameEmail(a, b) == toLowerCase(a.data.email) = toLowerCase(b.data.email)

\* the user a finished create request returned is in the collection
CreatedStored(ls, i) ==
    \E k \in 1..Len(getUsers(ls)) :
        /\ getUsers(ls)[k].id = responses[i].data[1].id
        /\ toLowerCase(getUsers(ls)[k].email) = toLowerCase(responses[i].req.data.email)

\* C8: of two create requests (POST /users, POST /auth/register) for the same
\* e-mail that are in flight together, the one that resumes while the other's
\* user is stored adds nothing and fails with 409 (401 for a POST /users without
\* a session); their two users are never stored together
C8_ConcurrentCreatesSerialised ==
    /\ \A i, j \in DOMAIN responses :
          (/\ i # j /\ Overlapped(i, j)
           /\ CreateReq(responses[i].req) /\ CreateReq(responses[j].req)
           /\ SameEmail(responses[i].req, responses[j].req)
           /\ responses[i].status = 200 /\ responses[j].status = 200)
             => ~(CreatedStored(localStorage, i) /\ CreatedStored(localStorage, j))
    /\ (last.op = "request" /\ CreateReq(last.req)) =>
          \A i \in (DOMAIN responses) \ {last.id} :
             (/\ Overlapped(i, last.id)
              /\ CreateReq(responses[i].req)
              /\ SameEmail(responses[i].req, last.req)
              /\ responses[i].status = 200
              /\ CreatedStored(last.pre, i))
                => /\ getUsers(localStorage) = getUsers(last.pre)
                   /\ IF last.req.endpoint = USERS_CREATE /\ ~isLoggedIn(last.pre)
                      THEN last.status = 401
                      ELSE last.status = 409

\* two creates for one e-mail were in flight together: one made the user, the
\* other got 409
C8_Witness ==
    \E i, j \in DOMAIN responses :
        /\ i # j /\ Overlapped(i, j)
        /\ CreateReq(responses[i].req) /\ CreateReq(responses[j].req)
        /\ SameEmail(responses[i].req, responses[j].req)
        /\ responses[i].status = 200 /\ responses[j].status = 409
        /\ CreatedStored(localStorage, i)

IsGenerateReport(req) == req.method = "POST" /\ req.endpoint = REPORTS_GENERATE

\* C9 as stated: every request suspends once only, so no request is ever found
\* suspended after its routing and authentication check
C9_SingleSuspension ==
    \A id \in DOMAIN inflight : inflight[id].pc = "delay"

\* C9 as amended: a request for any endpoint but POST /reports/generate runs from
\* its resumption to its envelope or error in one piece; only an authorized
\* POST /reports/generate is suspended again, after its authentication check
C9_OnlyGenerateReportSuspendsAgain ==
    /\ \A id \in DOMAIN inflight :
          inflight[id].pc # "delay" => IsGenerateReport(inflight[id].req)
    /\ last.op = "request" =>
          IF last.suspended
          THEN IsGenerateReport(last.req) /\ isLoggedIn(last.pre) /\ localStorage = last.pre
          ELSE last.id \in DOMAIN responses /\ last.id \notin DOMAIN inflight

\* a logout ran between the authentication check of a report request and its envelope
C9_Witness ==
    \E id \in DOMAIN inflight :
        /\ inflight[id].pc = "report"
        /\ last.op = "request" /\ last.id # id
        /\ last.req.endpoint = AUTH_LOGOUT /\ last.status = 200
        /\ ~isLoggedIn(localStorage)

\* C10: a request to a protected endpoint that resumes while the flag record
\* exists is authorized even when the session has expired, and the flag record
\* goes away only through a logout
C10_ExpiredSessionStillAuthorized ==
    /\ (/\ last.op = "request" /\ Protected(last.req)
        /\ isLoggedIn(last.pre)
        /\ isSessionExpired(last.pre, last.at, SESSION_TIMEOUT)) => last.status # 401
    /\ (/\ last.op \in {"request", "report"}
        /\ isLoggedIn(last.pre) /\ ~isLoggedIn(localStorage)) => last.req.endpoint = AUTH_LOGOUT

\* a protected request succeeded on a session idle for more than the timeout
C10_Witness ==
    /\ last.op = "request" /\ Protected(last.req)
    /\ has(last.pre, CURRENT_USER)
    /\ last.at - last.pre[CURRENT_USER].lastActivity > SESSION_TIMEOUT
    /\ isSessionExpired(last.pre, last.at, SESSION_TIMEOUT)
    /\ isLoggedIn(last.pre)
    /\ last.status = 200

---------------------------------------------------------------------------
(* Properties of login                                                      *)

IsDemoPair(c) == c.email = DEMO_EMAIL /\ c.password = DEMO_PASSWORD

\* some stored user has this e-mail ignoring case and is active
ActiveMatch(ls, email) ==
    \E i \in 1..Len(getUsers(ls)) :
        /\ toLowerCase(getUsers(ls)[i].email) = toLowerCase(email)
        /\ "status" \in DOMAIN getUsers(ls)[i]
        /\ getUsers(ls)[i].status = "active"

\* the session record and the flag record exist and carry one session id
SessionCreated(ls) ==
    /\ has(ls, CURRENT_USER) /\ isLoggedIn(ls)
    /\ ls[CURRENT_USER].sessionId = ls[SESSION_DATA].sessionId

\* C11: a login with credentials other than the demo pair succeeds and creates a
\* session exactly when a stored user matches the e-mail ignoring case and is
\* active, whatever the password; otherwise it fails with 401 and the session
\* record and the flag record are as they were.  (No state of SpecAuth holds two
\* users with one e-mail; getUserByEmail looks at the first match only.)
C11_LoginIffActiveMatch ==
    (last.op = "request" /\ last.req.endpoint = AUTH_LOGIN /\ ~IsDemoPair(last.req.data)) =>
        IF ActiveMatch(last.pre, last.req.data.email)
        THEN /\ last.status = 200
             /\ SessionCreated(localStorage)
             /\ localStorage[CURRENT_USER].loginTime = last.at
             /\ toLowerCase(localStorage[CURRENT_USER].user.email)
                   = toLowerCase(last.req.data.email)
             /\ localStorage[CURRENT_USER].user.status = "active"
        ELSE /\ last.status = 401
             /\ SameValue(localStorage, last.pre, CURRENT_USER)
             /\ SameValue(localStorage, last.pre, SESSION_DATA)

\* a stored user logged in with another case and any password, and a later login
\* of the inactive user failed and left that session in place
C11_Witness ==
    /\ last.op = "request" /\ last.req.endpoint = AUTH_LOGIN
    /\ last.req.data.email = "carlos@demo.com"
    /\ last.status = 401
    /\ isLoggedIn(localStorage)
    /\ has(localStorage, CURRENT_USER)
    /\ localStorage[CURRENT_USER].user.email = "juan@demo.com"
    /\ \E i \in DOMAIN responses :
          /\ i # last.id
          /\ responses[i].req.endpoint = AUTH_LOGIN
          /\ responses[i].req.data.email = "Juan@Demo.com"
          /\ responses[i].status = 200

\* C12: a login with the demo pair succeeds in every storage state (empty,
\* seeded, cleared, with a stored user that has the demo e-mail): the request does
\* not fail, and afterwards getCurrentUser() is non-null and isLoggedIn() is true
C12_DemoLoginAlwaysSucceeds ==
    (last.op = "request" /\ last.req.endpoint = AUTH_LOGIN /\ IsDemoPair(last.req.data)) =>
        /\ last.status = 200
        /\ getCurrentUser(localStorage) # <<>>
        /\ getCurrentUser(localStorage)[1] = DEMO_USER
        /\ isLoggedIn(localStorage)

\* a demo login on a cleared medium
C12_Witness ==
    /\ last.op = "request" /\ last.req.endpoint = AUTH_LOGIN /\ IsDemoPair(last.req.data)
    /\ ~has(last.pre, USER_DATA)
    /\ last.status = 200
    /\ isLoggedIn(localStorage)

---------------------------------------------------------------------------
(* Properties of the users endpoints                                        *)

StoredIds(ls) == {getUsers(ls)[k].id : k \in 1..Len(getUsers(ls))}

\* the positions of a sequence, in order
Positions(seq) == [i \in 1..Len(seq) |-> i]

IsBulk(req) == req.method = "POST" /\ req.endpoint = USERS_BULK

\* the status a bulk operation sets, if it sets one
TargetStatus(operation) == IF operation = "activate" THEN "active" ELSE "inactive"

\* the positions of the list whose id existed when its turn came: for a delete an
\* id exists at its first occurrence only, for a status change at every occurrence
TurnsThatFound(ls, data) ==
    SelectSeq(Positions(data.userIds),
              LAMBDA i : /\ data.userIds[i] \in StoredIds(ls)
                         /\ data.operation = "delete" =>
                               \A j \in 1..(i - 1) : data.userIds[j] # data.userIds[i])

Listed(data, id) == \E i \in 1..Len(data.userIds) : data.userIds[i] = id

\* b is a with the given properties set and updatedAt set to t
Patched(a, b, updates, t) ==
    /\ DOMAIN b = (DOMAIN a) \cup (DOMAIN updates) \cup {"updatedAt"}
    /\ b.updatedAt = t
    /\ \A f \in DOMAIN updates : f # "updatedAt" => b[f] = updates[f]
    /\ \A f \in (DOMAIN a) \ ((DOMAIN updates) \cup {"updatedAt"}) : b[f] = a[f]

\* C13: an authorized POST /users/bulk with delete, activate or deactivate does
\* not fail because of an id that is not stored; the count it returns is the
\* number of listed ids that existed when their turn came; exactly the stored
\* users that are listed are deleted or get the status, and the others are unchanged
C13_BulkCountsAndChangesListed ==
    (last.op = "request" /\ IsBulk(last.req) /\ isLoggedIn(last.pre)) =>
        LET data == last.req.data
            P == getUsers(last.pre)
            Q == getUsers(localStorage)
        IN /\ last.status = 200
           /\ responses[last.id].data = <<Len(TurnsThatFound(last.pre, data))>>
           /\ IF data.operation = "delete"
              THEN Q = SelectSeq(P, LAMBDA u : ~Listed(data, u.id))
              ELSE /\ Len(Q) = Len(P)
                   /\ \A k \in 1..Len(P) :
                         IF Listed(data, P[k].id)
                         THEN Patched(P[k], Q[k],
                                      [status |-> TargetStatus(data.operation)], last.at)
                         ELSE Q[k] = P[k]

\* a bulk status change over a list with a stored and a missing id counted one
C13_Witness ==
    /\ last.op = "request" /\ IsBulk(last.req) /\ last.status = 200
    /\ last.req.data.operation = "deactivate"
    /\ last.req.data.userIds = <<6, 5>>
    /\ 6 \notin StoredIds(last.pre)
    /\ responses[last.id].data = <<1>>
    /\ \E k \in 1..Len(getUsers(localStorage)) :
          getUsers(localStorage)[k].id = 5 /\ getUsers(localStorage)[k].status = "inactive"

IsPutOrDelete(req) ==
    /\ req.method \in {"PUT", "DELETE"}
    /\ Len(req.endpoint) = 3 /\ req.endpoint[2] = "users"
    /\ req.endpoint[3] \in DOMAIN Digits

\* C15: an authorized PUT or DELETE /users/:id for an id that is not stored fails
\* with 404 and leaves the user collection and the audit log as they were; for a
\* stored id it succeeds and updates or removes that user and no other
C15_PutDeleteMissingIs404 ==
    (last.op = "request" /\ IsPutOrDelete(last.req) /\ isLoggedIn(last.pre)) =>
        LET id == Digits[last.req.endpoint[3]]
            P == getUsers(last.pre)
            Q == getUsers(localStorage)
        IN IF id \notin StoredIds(last.pre)
           THEN /\ last.status = 404
                /\ SameValue(localStorage, last.pre, USER_DATA)
                /\ SameValue(localStorage, last.pre, LOGS_DATA)
           ELSE /\ last.status = 200
                /\ IF last.req.method = "DELETE"
                   THEN Q = SelectSeq(P, LAMBDA u : u.id # id)
                   ELSE /\ Len(Q) = Len(P)
                        /\ \A k \in 1..Len(P) :
                              IF P[k].id = id
                              THEN Patched(P[k], Q[k], last.req.data, last.at)
                              ELSE Q[k] = P[k]

\* a DELETE of an id that had been deleted already got 404
C15_Witness ==
    /\ last.op = "request" /\ last.req.method = "DELETE"
    /\ last.req.endpoint = <<"api", "users", "5">>
    /\ last.status = 404
    /\ 5 \notin StoredIds(last.pre)
    /\ \E i \in DOMAIN responses :
          /\ i # last.id /\ responses[i].status = 200
          /\ responses[i].req.method = "DELETE" /\ responses[i].req.endpoint = last.req.endpoint

LogOf(ls) == get(ls, LOGS_DATA, <<>>)

\* the action tag and user id of each entry
TagsOf(entries) == [k \in 1..Len(entries) |-> <<entries[k].action, entries[k].userId>>]

\* the entries a finished users request is to append: one per user it changed
ExpectedTags(req, pre, status, data) ==
    IF status # 200 THEN <<>>
    ELSE IF IsBulk(req)
         THEN LET turns == TurnsThatFound(pre, req.data)
                  tag == IF req.data.operation = "delete" THEN "USER_DELETED"
                                                          ELSE "USER_UPDATED"
              IN [k \in 1..Len(turns) |-> <<tag, req.data.userIds[turns[k]]>>]
    ELSE IF req.method = "POST" /\ req.endpoint = USERS_CREATE
         THEN << <<"USER_CREATED", data[1].id>> >>
    ELSE IF IsPutOrDelete(req) /\ req.method = "PUT"
         THEN << <<"USER_UPDATED", Digits[req.endpoint[3]]>> >>
    ELSE IF IsPutOrDelete(req) /\ req.method = "DELETE"
         THEN << <<"USER_DELETED", Digits[req.endpoint[3]]>> >>
    ELSE <<>>

\* C17: every successful createUser, updateUser and deleteUser (reached through
\* POST, PUT and DELETE /users) appends exactly one audit entry with the tag
\* USER_CREATED, USER_UPDATED or USER_DELETED and the id of the user; an id that is
\* not found appends nothing; deleteUsers and the bulk status changes append one
\* entry per id that was changed, in list order
C17_OneAuditEntryPerMutation ==
    (last.op = "request" /\ includes(last.req.endpoint, "users")) =>
        LET before == LogOf(last.pre)
            after == LogOf(localStorage)
            appended == SubSeq(after, Len(before) + 1, Len(after))
        IN /\ Len(after) >= Len(before)
           /\ SubSeq(after, 1, Len(before)) = before
           /\ TagsOf(appended) = ExpectedTags(last.req, last.pre, last.status,
                                              responses[last.id].data)
           /\ \A k \in 1..Len(appended) : appended[k].timestamp = last.at

\* a bulk activate of <<3, 7, 3>> appended two entries for user 3 and none for 7
C17_Witness ==
    /\ last.op = "request" /\ IsBulk(last.req) /\ last.status = 200
    /\ last.req.data.operation = "activate"
    /\ last.req.data.userIds = <<3, 7, 3>>
    /\ Len(LogOf(localStorage)) = Len(LogOf(last.pre)) + 2
    /\ responses[last.id].data = <<2>>

---------------------------------------------------------------------------
(* Properties of deleteUser and of the session store                        *)

\* C14: deleteUser with an id that is not stored returns false and leaves the
\* user collection (length, order, content) and the audit log as they were
C14_DeleteMissingChangesNothing ==
    (last.op = "deleteUser" /\ last.id \notin StoredIds(last.pre)) =>
        /\ last.ret = FALSE
        /\ SameValue(localStorage, last.pre, USER_DATA)
        /\ SameValue(localStorage, last.pre, LOGS_DATA)
        /\ localStorage = last.pre

\* deleteUser of an id that an earlier deleteUser had removed
C14_Witness ==
    /\ last.op = "deleteUser" /\ last.id = 5
    /\ 5 \notin StoredIds(last.pre)
    /\ Len(getUsers(last.pre)) > 0
    /\ \E k \in 1..Len(LogOf(last.pre)) :
          LogOf(last.pre)[k].action = "USER_DELETED" /\ LogOf(last.pre)[k].userId = 5
    /\ last.ret = FALSE

SessionKeys == {CURRENT_USER, SESSION_DATA}

\* C18: logout() removes the session record and the flag record and changes no
\* other key; a further logout() changes nothing; afterwards isLoggedIn() is
\* false, getCurrentUser() is null and isSessionExpired() is true
C18_LogoutRemovesBothIdempotent ==
    last.op = "logout" =>
        /\ DOMAIN localStorage = (DOMAIN last.pre) \ SessionKeys
        /\ \A k \in DOMAIN localStorage : localStorage[k] = last.pre[k]
        /\ logout(localStorage) = localStorage
        /\ ~isLoggedIn(localStorage)
        /\ getCurrentUser(localStorage) = <<>>
        /\ isSessionExpired(localStorage, now, SESSION_TIMEOUT)

\* a logout that ended a session on a medium holding users and an audit log
C18_Witness ==
    /\ last.op = "logout"
    /\ SessionKeys \subseteq DOMAIN last.pre
    /\ {USER_DATA, LOGS_DATA} \subseteq DOMAIN localStorage

\* timeouts passed to isSessionExpired: the default and the elapsed times next to it
Timeouts == {SESSION_TIMEOUT - 1, SESSION_TIMEOUT, SESSION_TIMEOUT + 1}

\* minutes since the last activity of the session
Elapsed(ls, t) == t - ls[CURRENT_USER].lastActivity

\* C19: isSessionExpired(timeoutMinutes) is true when no session record exists,
\* and with one it is true exactly when the time since lastActivity is strictly
\* greater than the timeout (equal is not expired); updateActivity() on a session
\* resets the elapsed time to zero, and does nothing when there is no session
C19_ExpiredStrictlyAfterTimeout ==
    /\ \A timeoutMinutes \in Timeouts :
          isSessionExpired(localStorage, now, timeoutMinutes)
             = (~has(localStorage, CURRENT_USER) \/ Elapsed(localStorage, now) > timeoutMinutes)
    /\ last.op = "updateActivity" =>
          IF has(last.pre, CURRENT_USER)
          THEN /\ has(localStorage, CURRENT_USER)
               /\ Elapsed(localStorage, last.at) = 0
               /\ ~isSessionExpired(localStorage, last.at, SESSION_TIMEOUT)
               /\ \A f \in (DOMAIN last.pre[CURRENT_USER]) \ {"lastActivity"} :
                     localStorage[CURRENT_USER][f] = last.pre[CURRENT_USER][f]
               /\ \A k \in KnownKeys \ {CURRENT_USER} : SameValue(localStorage, last.pre, k)
          ELSE localStorage = last.pre

\* a session idle for exactly the timeout is not expired
C19_Witness ==
    /\ has(localStorage, CURRENT_USER)
    /\ Elapsed(localStorage, now) = SESSION_TIMEOUT
    /\ ~isSessionExpired(localStorage, now, SESSION_TIMEOUT)
    /\ isSessionExpired(localStorage, now, SESSION_TIMEOUT - 1)

\* the session and flag records setCurrentUser(user) leaves: one session id in
\* both, the given user in the single slot
SessionWrittenFor(ls, user, t) ==
    /\ SessionKeys \subseteq DOMAIN ls
    /\ ls[CURRENT_USER].user = user
    /\ ls[CURRENT_USER].loginTime = t /\ ls[CURRENT_USER].lastActivity = t
    /\ \E r \in RandomSuffixes : ls[CURRENT_USER].sessionId = generateSessionId(t, r)
    /\ ls[SESSION_DATA] = [isLoggedIn |-> TRUE, sessionStart |-> t,
                           sessionId |-> ls[CURRENT_USER].sessionId]

\* what setCurrentUser(user) does to the user collection P and the audit log: the
\* first record with user.id gets lastLogin and one USER_UPDATED entry is appended;
\* with no such record both stay as they are
LastLoginWritten(P, logBefore, user, t) ==
    LET k == FindIndex(P, LAMBDA u : u.id = user.id)
        Q == getUsers(localStorage)
        logAfter == LogOf(localStorage)
    IN IF k = 0
       THEN Q = P /\ logAfter = logBefore
       ELSE /\ Len(Q) = Len(P)
            /\ Patched(P[k], Q[k], [lastLogin |-> t], t)
            /\ \A i \in 1..Len(P) : i # k => Q[i] = P[i]
            /\ Len(logAfter) = Len(logBefore) + 1
            /\ SubSeq(logAfter, 1, Len(logBefore)) = logBefore
            /\ logAfter[Len(logAfter)].action = "USER_UPDATED"
            /\ logAfter[Len(logAfter)].userId = user.id

\* C20: setCurrentUser(user) writes the session record and the flag
\* record with one session id, replacing any session; it sets lastLogin on the
\* stored record with user.id and appends one USER_UPDATED entry; when no stored
\* user has that id the user collection and the audit log are unchanged
C20_SetCurrentUserFrame ==
    last.op = "setCurrentUser" =>
        /\ SessionWrittenFor(localStorage, last.user, last.at)
        /\ IF last.user.id \in StoredIds(last.pre)
           THEN LastLoginWritten(getUsers(last.pre), LogOf(last.pre), last.user, last.at)
           ELSE /\ SameValue(localStorage, last.pre, USER_DATA)
                /\ SameValue(localStorage, last.pre, LOGS_DATA)

\* the user collection the UserStorage built inside setCurrentUser works on: the
\* stored one, or the sample users when the user key is absent
UsersAfterConstruction(ls) == IF USER_DATA \in DOMAIN ls THEN ls[USER_DATA] ELSE SAMPLE_USERS

---------------------------------------------------------------------------
(* Properties of the audit log                                              *)

\* the entries the last operation appended
Appended ==
    CASE last.op = "createUser" -> 1
      [] last.op = "updateUser" -> IF last.id \in StoredIds(last.pre) THEN 1 ELSE 0
      [] last.op = "deleteUser" -> IF last.id \in StoredIds(last.pre) THEN 1 ELSE 0
      [] last.op = "deleteUsers" ->
            Cardinality({id \in StoredIds(last.pre) : \E i \in 1..Len(last.ids) : last.ids[i] = id})
      [] last.op = "setCurrentUser" ->
            IF \E i \in 1..Len(UsersAfterConstruction(last.pre)) :
                  UsersAfterConstruction(last.pre)[i].id = last.user.id
            THEN 1 ELSE 0
      [] OTHER -> 0

\* the log after the last operation is the log before it followed by the
\* appended entries, cut to its most recent LOG_LIMIT entries
KeepsMostRecent ==
    LET before == LogOf(last.pre)
        after == LogOf(localStorage)
        kept == IF Len(before) + Appended > LOG_LIMIT THEN LOG_LIMIT - Appended ELSE Len(before)
    IN /\ Len(after) = kept + Appended
       /\ SubSeq(after, 1, kept) = SubSeq(before, Len(before) - kept + 1, Len(before))

\* C16 as stated: under every operation of the core (user mutations, login,
\* logout, createBackup, restoreBackup, importData, clear) the audit log holds at
\* most 1000 entries, no entry is modified, and entries leave it only by the
\* overflow trim, which keeps the most recent 1000 in append order
C16_LogAppendOnlyEverywhere ==
    /\ Len(LogOf(localStorage)) <= LOG_LIMIT
    /\ last.op # "init" => KeepsMostRecent

\* the document restoreBackup or importData took the last time it was called
DocumentTaken ==
    LET arg == IF last.op = "importData" THEN last.data.value ELSE last.arg
    IN IF arg # <<>> THEN arg
       ELSE IF BACKUP_DATA \in DOMAIN last.pre THEN <<last.pre[BACKUP_DATA]>> ELSE <<>>

\* C16 as amended: under user mutations, login, logout and createBackup the log
\* holds at most 1000 entries, no entry is modified and entries leave it only by
\* the overflow trim that keeps the most recent 1000 in append order; clear()
\* removes the whole log, and a restoreBackup or importData that succeeds with a
\* document holding a log replaces the log by the document's
C16_LogAppendOnlyExceptClearRestore ==
    /\ Len(LogOf(localStorage)) <= LOG_LIMIT
    /\ CASE last.op = "init" -> TRUE
         [] last.op = "clear" -> LOGS_DATA \notin DOMAIN localStorage
         [] last.op \in {"restoreBackup", "importData"} ->
               IF last.ret /\ LOGS_DATA \in DOMAIN DocumentTaken[1].data
               THEN LogOf(localStorage) = DocumentTaken[1].data[LOGS_DATA]
               ELSE LogOf(localStorage) = LogOf(last.pre)
         [] OTHER -> KeepsMostRecent

\* an update on a full log dropped the oldest entry and appended its own
C16_Witness ==
    /\ last.op = "updateUser" /\ Appended = 1
    /\ Len(LogOf(last.pre)) = LOG_LIMIT
    /\ Len(LogOf(localStorage)) = LOG_LIMIT
    /\ LogOf(localStorage)[1] = LogOf(last.pre)[2]
    /\ LogOf(localStorage)[1] # LogOf(last.pre)[1]
    /\ LogOf(localStorage)[LOG_LIMIT].timestamp = now

---------------------------------------------------------------------------
(* Properties of seeding                                                    *)

\* the last operation built a store on a medium without the user key, and the
\* construction wrote the sample users and the default settings
ConstructionSeeded ==
    /\ last.op = "setCurrentUser"
    /\ USER_DATA \notin DOMAIN last.pre
    /\ USER_DATA \in DOMAIN localStorage
    /\ SYSTEM_SETTINGS \in DOMAIN localStorage

\* C21: seeding is a one-time initialization. Every medium the page is loaded on
\* has been seeded by the construction of the singletons (then or on an earlier
\* visit), so over any sequence of operations (clear(), logout, login and the
\* UserStorage built inside setCurrentUser) no later construction writes the
\* sample users and the settings again; and a construction that finds the user
\* key present, even with an empty collection, changes no key
C21_SeedingOnlyOnce ==
    /\ ~ConstructionSeeded
    /\ USER_DATA \in DOMAIN localStorage => initializeStorage(localStorage) = localStorage

---------------------------------------------------------------------------
(* Properties of a medium that rejects writes or holds damaged items        *)

\* the item named key holds the same decoded value in both media, or is
\* missing or undecodable in both
SameItem(a, b, key) ==
    /\ (key \in DOMAIN a) = (key \in DOMAIN b)
    /\ (key \in Undecodable(a)) = (key \in Undecodable(b))
    /\ key \in DOMAIN a => a[key] = b[key]

\* C22: storage failures are absorbed. set on a write the medium rejects returns
\* false and leaves every key as it was; get on a missing or undecodable key
\* returns the caller's default and changes nothing; and every UserStorage,
\* SessionStorage and BackupStorage operation called while the medium rejects
\* writes completes, leaving each key whose write was rejected with the value it
\* had (or removed, for the operations that remove keys)
C22_StorageFailuresAbsorbed ==
    /\ (last.op = "set" /\ last.key \in Rejects(last.pre)) =>
          last.ret = FALSE /\ localStorage = last.pre
    /\ (last.op = "set" /\ last.key \notin Rejects(last.pre)) =>
          /\ last.ret = TRUE
          /\ localStorage[last.key] = last.value
          /\ \A k \in KnownKeys \ {last.key} : SameItem(localStorage, last.pre, k)
    /\ (last.op = "get" /\ (last.key \in Undecodable(last.pre) \/ last.key \notin DOMAIN last.pre)) =>
          last.ret = last.defaultValue /\ localStorage = last.pre
    /\ last.op # "init" =>
          /\ Rejects(localStorage) = Rejects(last.pre)
          /\ \A k \in Rejects(last.pre) :
                \/ SameItem(localStorage, last.pre, k)
                \/ /\ last.op \in {"clear", "logout"}
                   /\ k \notin DOMAIN localStorage /\ k \notin Undecodable(localStorage)
    /\ Undecodable(localStorage) \cap DOMAIN localStorage = {}

\* createUser on a medium that rejects the write of the user collection and
\* accepts the write of the log: it returned the new user, which is not stored
C22_Witness ==
    /\ last.op = "createUser"
    /\ USER_DATA \in Rejects(last.pre) /\ LOGS_DATA \notin Rejects(last.pre)
    /\ last.ret.id = last.preNextId
    /\ getUsers(localStorage) = getUsers(last.pre)
    /\ Len(LogOf(localStorage)) = Len(LogOf(last.pre)) + 1

---------------------------------------------------------------------------
(* Properties of exportData                                                 *)

\* the pieces of a text between the separators at the given positions
RECURSIVE SplitAt(_, _)
SplitAt(text, cuts) ==
    IF cuts = {} THEN <<text>>
    ELSE LET i == CHOOSE c \in cuts : \A d \in cuts : c <= d
         IN <<SubSeq(text, 1, i - 1)>>
               \o SplitAt(SubSeq(text, i + 1, Len(text)), {c - i : c \in cuts \ {i}})

\* the positions of a separator in a text
Occurrences(text, separator) == {i \in 1..Len(text) : text[i] = separator}

\* the positions of a separator that no pair of double quotes encloses
OutsideQuotes(text, separator) ==
    {i \in Occurrences(text, separator) :
        Cardinality({j \in Occurrences(text, QUOTE) : j < i}) % 2 = 0}

\* a text that is "..." around a content whose double quotes come doubled
RECURSIVE Undoubled(_)
Undoubled(text) ==
    IF text = <<>> THEN <<>>
    ELSE IF Head(text) # QUOTE THEN <<Head(text)>> \o Undoubled(Tail(text))
    ELSE IF Len(text) >= 2 /\ text[2] = QUOTE THEN <<QUOTE>> \o Undoubled(Tail(Tail(text)))
    ELSE <<QUOTE, QUOTE, QUOTE>> \o Undoubled(Tail(text))

Wrapped(field, content) ==
    /\ Len(field) >= 2 /\ field[1] = QUOTE /\ field[Len(field)] = QUOTE
    /\ Undoubled(SubSeq(field, 2, Len(field) - 1)) = content

\* the CSV of the users cut into the given rows: a header of the first user's
\* field names, then one row per user in order, each value wrapped
RowsOfUsers(rows, users) ==
    LET headers == ObjectKeys(users[1])
    IN /\ Len(rows) = Len(users) + 1
       /\ rows[1] = join([h \in 1..Len(headers) |-> NameText(headers[h])], <<COMMA>>)
       /\ \A i \in 1..Len(users) :
             LET fields == SplitAt(rows[i + 1], OutsideQuotes(rows[i + 1], COMMA))
             IN /\ Len(fields) = Len(headers)
                /\ \A h \in 1..Len(headers) : Wrapped(fields[h], StringOf(users[i], headers[h]))

IsCsvExport == last.op = "exportData" /\ last.format = "csv"

\* C23: exportData("csv") returns the empty string for an empty collection, and
\* for N >= 1 users exactly N+1 lines: the header of the first record's field
\* names, then one row per user in order, every value wrapped in double quotes
\* with embedded double quotes doubled, whatever the fields hold
C23_CsvHasOneLinePerUser ==
    IsCsvExport =>
        IF Len(getUsers(last.pre)) = 0 THEN last.ret = <<>>
        ELSE RowsOfUsers(SplitAt(last.ret, Occurrences(last.ret, NEWLINE)), getUsers(last.pre))

\* C23 as amended: the text is N+1 CSV records separated by line breaks (the
\* header, then one record per user in order, every value wrapped in double
\* quotes with embedded double quotes doubled); a line break inside a value
\* stays inside its quotes, so the text has exactly N+1 lines only when no
\* value holds a line break
C23_CsvHasOneRecordPerUser ==
    IsCsvExport =>
        IF Len(getUsers(last.pre)) = 0 THEN last.ret = <<>>
        ELSE /\ RowsOfUsers(SplitAt(last.ret, OutsideQuotes(last.ret, NEWLINE)),
                            getUsers(last.pre))
             /\ (\A i \in 1..Len(getUsers(last.pre)) :
                    \A h \in DOMAIN getUsers(last.pre)[i] \cap {"name"} :
                       Occurrences(getUsers(last.pre)[i][h], NEWLINE) = {})
                 => Cardinality(Occurrences(last.ret, NEWLINE)) = Len(getUsers(last.pre))

\* the export of two users whose names hold a double quote and a comma
C23_Witness ==
    /\ IsCsvExport
    /\ Len(getUsers(last.pre)) = 2
    /\ getUsers(last.pre)[1] = [id |-> 1, name |-> <<QUOTE>>]
    /\ getUsers(last.pre)[2] = [id |-> 2, name |-> <<COMMA>>]
    /\ Cardinality(Occurrences(last.ret, NEWLINE)) = 2

---------------------------------------------------------------------------
(* Properties of the stored ids                                             *)

\* C24: in every reachable state the ids of the stored users are pairwise
\* distinct, whatever sequence of createUser (with any payload, one carrying an
\* id included), updateUser, deleteUser, clear, restoreBackup and logins led there
C24_IdsStayDistinct ==
    \A i, j \in 1..Len(getUsers(localStorage)) :
        i # j => getUsers(localStorage)[i].id # getUsers(localStorage)[j].id

\* C26: with no rejected write, in every state reached through setCurrentUser,
\* updateActivity, logout, clear, createBackup and restoreBackup the session
\* record exists exactly when the flag record exists, and when both exist they
\* carry the same session id
C26_SessionAndFlagAgree ==
    /\ has(localStorage, CURRENT_USER) = has(localStorage, SESSION_DATA)
    /\ (has(localStorage, CURRENT_USER) /\ has(localStorage, SESSION_DATA)) =>
          localStorage[CURRENT_USER].sessionId = localStorage[SESSION_DATA].sessionId

\* a restoreBackup that brings a session back after a logout, and a login that
\* replaces the session of an earlier login
C26_Witness ==
    /\ has(localStorage, CURRENT_USER) /\ has(localStorage, SESSION_DATA)
    /\ \/ last.op = "restoreBackup" /\ ~has(last.pre, CURRENT_USER)
       \/ /\ last.op = "setCurrentUser" /\ has(last.pre, CURRENT_USER)
          /\ last.pre[CURRENT_USER].sessionId # localStorage[CURRENT_USER].sessionId

\* C27: whenever a session exists for a user other than the demo user, a user
\* with that id is stored and active, also after a delete, a bulk delete, a
\* bulk deactivate or a status update
C27_SessionUserStoredAndActive ==
    (has(localStorage, CURRENT_USER) /\ localStorage[CURRENT_USER].user.id # DEMO_USER.id) =>
        \E i \in 1..Len(getUsers(localStorage)) :
            /\ getUsers(localStorage)[i].id = localStorage[CURRENT_USER].user.id
            /\ getUsers(localStorage)[i].status = "active"

\* how many backups lie inside one another in the data map of a backup document
RECURSIVE NestedBackups(_)
NestedBackups(doc) ==
    IF BACKUP_DATA \in DOMAIN doc.data
    THEN 1 + NestedBackups(doc.data[BACKUP_DATA])
    ELSE 0

\* C30: the data map of the stored backup document never contains an earlier
\* backup that itself contains an earlier backup
C30_BackupNestingBounded ==
    has(localStorage, BACKUP_DATA) => NestedBackups(localStorage[BACKUP_DATA]) <= 1

---------------------------------------------------------------------------
(* Properties of the notification manager                                   *)

\* C29: for every sequence of show calls, with any timing and also with
\* persistent notifications, once every removal that has been scheduled has
\* completed the manager holds at most maxVisible notifications
C29_AtMostMaxVisibleWhenSettled ==
    notificationManager.removals = <<>> =>
        Len(notificationManager.notifications) <= maxVisible

---------------------------------------------------------------------------
(* Properties of the page                                                   *)

\* C25: when handleLogin or handleRegister has succeeded the AuthManager has a
\* current user and the session flag exists (isLoggedIn() is true); when the
\* logout of the AuthManager has completed it has no current user and
\* isLoggedIn() is false
C25_CurrentUserHasSession ==
    last.op = "request" =>
        /\ (last.req.endpoint \in {AUTH_LOGIN, AUTH_REGISTER} /\ last.status = 200) =>
               (authManager.currentUser # <<>> /\ isLoggedIn(localStorage))
        /\ last.req.endpoint = AUTH_LOGOUT =>
               (authManager.currentUser = <<>> /\ ~isLoggedIn(localStorage))

\* C28: neither the session timer nor the periodic check calls
\* handleSessionExpired while the last activity of the logged-in user lies
\* within the timeout
C28_ExpiryOnlyWhenInactive ==
    last.op = "handleSessionExpired" =>
        isSessionExpired(last.pre, last.at, SESSION_TIMEOUT)

====
